---- MODULE Spec2Model ----
(***************************************************************************)
(* Backlog aggregation and sprint report engine of jira-mcp-server.        *)
(*                                                                         *)
(* getBacklogStats (src/unnamed/part_002:1040-1458) is modelled step by    *)
(* step at its await boundaries: getBoard, getFields, and one searchIssues *)
(* request/response per loop iteration.  Everything the handler does       *)
(* between two awaits is one action.                                       *)
(*                                                                         *)
(* JavaScript values:                                                      *)
(*   - a string that may be undefined/null is a string, "" standing for    *)
(*     the absent value (both are falsy for || and ?.);                    *)
(*   - Record<string, T> is a function whose DOMAIN is the set of keys;    *)
(*   - an issue key and a JQL text are sequences of text chunks, so that   *)
(*     the regular expressions applied to them are computed, not assumed.  *)
(***************************************************************************)
EXTENDS Integers, Sequences, FiniteSets, Bags, TLC

\* ------------------------------------------------------------------ bounds
\* Issues one backend hands out over all pages of one getBacklogStats run.
MaxIssues == 3
\* Chunks of a JQL text given to the query builder.
MaxJqlLen == 6
\* Entries of a change history after its padding.
MaxEntries == 2
\* Chunks of the text of JIRA_SCOPES.
MaxScopeLen == 3

\* ------------------------------------------------------- program constants
\* while (pageCount < 40)
MaxPages == 40
\* const pageSize = 100
PageSize == 100

\* ---------------------------------------------------------- generic helpers
RECURSIVE Cat(_)
Cat(s) == IF s = <<>> THEN "" ELSE Head(s) \o Cat(Tail(s))

RECURSIVE SumSeq(_)
SumSeq(s) == IF s = <<>> THEN 0 ELSE Head(s) + SumSeq(Tail(s))

RECURSIVE SumMap(_)
SumMap(m) ==
  IF DOMAIN m = {} THEN 0
  ELSE LET k == CHOOSE x \in DOMAIN m : TRUE
       IN m[k] + SumMap([x \in DOMAIN m \ {k} |-> m[x]])

Range(s) == {s[i] : i \in DOMAIN s}

SeqsUpTo(S, n) == UNION {[1..k -> S] : k \in 0..n}

\* m[k] || 0
Get(m, k) == IF k \in DOMAIN m THEN m[k] ELSE 0
\* m[k] = v
Put(m, k, v) == [x \in DOMAIN m \cup {k} |-> IF x = k THEN v ELSE m[x]]
\* m[k] = (m[k] || 0) + 1
Inc(m, k) == Put(m, k, Get(m, k) + 1)
EmptyMap == <<>>

\* x || d for strings: "" (and undefined) is falsy
OrElse(x, d) == IF x = "" THEN d ELSE x

\* --------------------------------------------------------------- characters
UpperLetters == {"P", "O"}
LowerLetters == {"p"}
Digits == {"1", "2", "3"}
IsLetter(c) == c \in UpperLetters \cup LowerLetters
IsDigit(c) == c \in Digits
ToUpperChar(c) == IF c = "p" THEN "P" ELSE c

\* String.prototype.toLowerCase on the issue type and board names of the model
ToLowerCase(s) ==
  CASE s = "Bug" -> "bug"
    [] s = "Story" -> "story"
    [] s = "Epic" -> "epic"
    [] s \in {"Alpha", "ALPHA"} -> "alpha"
    [] s = "Beta" -> "beta"
    [] OTHER -> s

\* String.prototype.toUpperCase on project keys
ToUpperCase(s) == IF s = "p" THEN "P" ELSE s

\* -------------------------------------------------------------- permissions
\* null (no allowlist configured) is [on |-> FALSE]
NoAllowlist == [on |-> FALSE, set |-> {}]

\* /^([A-Z][A-Z0-9]*)-\d+$/i : the place of the "-" when the key matches, else 0
KeyDash(issueKey) ==
  LET ok(i) == /\ issueKey[i] = "-"
               /\ i > 1
               /\ IsLetter(issueKey[1])
               /\ \A j \in 2..(i - 1) : IsLetter(issueKey[j]) \/ IsDigit(issueKey[j])
               /\ i < Len(issueKey)
               /\ \A j \in (i + 1)..Len(issueKey) : IsDigit(issueKey[j])
  IN IF \E i \in 1..Len(issueKey) : ok(i)
     THEN CHOOSE i \in 1..Len(issueKey) : ok(i)
     ELSE 0

\* a variant that takes any key
ValidIssueKey_AnyKey(issueKey) == TRUE

\* getProjectFromIssueKey throws 'Invalid issue key format' exactly when this is FALSE
ValidIssueKey(issueKey) == KeyDash(issueKey) # 0

\* match[1].toUpperCase()
getProjectFromIssueKey(issueKey) ==
  Cat([i \in 1..(KeyDash(issueKey) - 1) |-> ToUpperChar(issueKey[i])])

isProjectAllowed(projectKey, allowlist) ==
  IF ~allowlist.on THEN TRUE ELSE ToUpperCase(projectKey) \in allowlist.set

isIssueTypeAllowed(issueType, allowlist) ==
  IF ~allowlist.on THEN TRUE ELSE ToLowerCase(issueType) \in allowlist.set

\* ------------------------------------------------------------ issue records
\* A field value of unknown type (fields[valueField]): a number, a string or
\* undefined.
Num(n) == [t |-> "number", n |-> n, s |-> ""]
Str(s) == [t |-> "string", n |-> 0, s |-> s]
Undef == [t |-> "undefined", n |-> 0, s |-> ""]

Issue(key, status, type, priority, assignee, reporter, labels, components, resolution, sp) ==
  [key |-> key, status |-> status, issuetype |-> type, priority |-> priority,
   assignee |-> assignee, reporter |-> reporter, labels |-> labels,
   components |-> components, resolution |-> resolution, sp |-> sp]

\* The issues a backend of the model can return.  Under the allowlists of the
\* model IssueA passes both, IssueB fails the project allowlist only and IssueC
\* (whose key is in lower case) fails the issue type allowlist only.
IssueA == Issue(<<"P", "-", "1">>, "Done", "Bug", "High", "Alice", "Bob",
                <<"a", "b">>, <<"ui">>, "Fixed", Num(3))
IssueB == Issue(<<"O", "-", "2">>, "Open", "Story", "", "", "",
                <<>>, <<>>, "", Str("2"))
IssueC == Issue(<<"p", "-", "3">>, "Done", "Epic", "Low", "Bob", "Bob",
                <<"a", "a">>, <<"ui", "api">>, "Fixed", Str("x"))
Issues == {IssueA, IssueB, IssueC}

\* An issue of a project whose key holds an underscore: the key is not of the
\* form getProjectFromIssueKey takes.
IssueG == Issue(<<"P", "_", "O", "-", "1">>, "Open", "Task", "Low", "", "Bob",
                <<>>, <<>>, "", Num(1))

\* --------------------------------------------------------- field extraction
SingleValuedFields ==
  {"status", "type", "priority", "assignee", "reporter", "resolution", "project"}
MultiValuedFields == {"labels", "components"}

\* FieldValueArray putting an issue without labels or components under 'None'
FieldValueArray_EmptyAsNone(issue, field) ==
  CASE field = "status" -> <<OrElse(issue.status, "Unknown")>>
    [] field = "type" -> <<OrElse(issue.issuetype, "Unknown")>>
    [] field = "priority" -> <<OrElse(issue.priority, "None")>>
    [] field = "assignee" -> <<OrElse(issue.assignee, "Unassigned")>>
    [] field = "reporter" -> <<OrElse(issue.reporter, "Unknown")>>
    [] field = "labels" -> IF issue.labels = <<>> THEN <<"None">> ELSE issue.labels
    [] field = "components" ->
         IF issue.components = <<>> THEN <<"None">> ELSE issue.components
    [] field = "resolution" -> <<OrElse(issue.resolution, "Unresolved")>>
    [] field = "project" -> <<getProjectFromIssueKey(issue.key)>>
    [] OTHER -> <<"Unknown">>

\* getFieldValue, with Array.isArray(values) ? values : [values] applied
FieldValueArray(issue, field) ==
  CASE field = "status" -> <<OrElse(issue.status, "Unknown")>>
    [] field = "type" -> <<OrElse(issue.issuetype, "Unknown")>>
    [] field = "priority" -> <<OrElse(issue.priority, "None")>>
    [] field = "assignee" -> <<OrElse(issue.assignee, "Unassigned")>>
    [] field = "reporter" -> <<OrElse(issue.reporter, "Unknown")>>
    [] field = "labels" -> issue.labels
    [] field = "components" -> issue.components
    [] field = "resolution" -> <<OrElse(issue.resolution, "Unresolved")>>
    [] field = "project" -> <<getProjectFromIssueKey(issue.key)>>
    [] OTHER -> <<"Unknown">>

\* parseFloat on the strings of the model; isNaN otherwise
ParsesAsNumber(s) == s \in {"2"}
ParseFloat(s) == IF s = "2" THEN 2 ELSE 0

\* getNumericValue(fields, valueField) ?? 0
NumericValueOrZero(v) ==
  CASE v.t = "number" -> v.n
    [] v.t = "string" -> IF ParsesAsNumber(v.s) THEN ParseFloat(v.s) ELSE 0
    [] OTHER -> 0

\* The custom field holding story points in the model's issues.
StoryPointsField == "customfield_sp"

\* fields[valueField]
RawField(issue, valueField) ==
  IF valueField = StoryPointsField THEN issue.sp ELSE Undef

\* --------------------------------------------------------------- aggregator
NoGroupBy == [given |-> FALSE, fields |-> <<>>]
GroupBy(fields) == [given |-> TRUE, fields |-> fields]
NoPivot == [given |-> FALSE, rowField |-> "", columnField |-> "", action |-> "", valueField |-> ""]
Pivot(row, col, action, valueField) ==
  [given |-> TRUE, rowField |-> row, columnField |-> col, action |-> action,
   valueField |-> valueField]

\* The accumulators of one getBacklogStats call, as declared before its loop.
EmptyAcc ==
  [analyzed |-> 0,
   byStatus |-> EmptyMap, byType |-> EmptyMap, byPriority |-> EmptyMap,
   byAssignee |-> EmptyMap, byTypeAndStatus |-> EmptyMap,
   groupedBy |-> EmptyMap,
   pivotData |-> EmptyMap, pivotRowTotals |-> EmptyMap, pivotColTotals |-> EmptyMap,
   pivotGrandTotal |-> [count |-> 0, sum |-> 0]]

\* for (const field of groupByFields) groupedBy[field] = {}
InitGroupedBy(groupBy) == [f \in Range(groupBy.fields) |-> EmptyMap]

\* DefaultAggregation with the cross-tab keyed by status alone
DefaultAggregation_FlatCrossTab(acc, issue) ==
  LET status == issue.status
      type == issue.issuetype
      priority == OrElse(issue.priority, "None")
      assignee == OrElse(issue.assignee, "Unassigned")
  IN [acc EXCEPT !.byStatus = Inc(@, status),
                 !.byType = Inc(@, type),
                 !.byTypeAndStatus = Put(@, type, Inc(EmptyMap, status)),
                 !.byPriority = Inc(@, priority),
                 !.byAssignee = Inc(@, assignee)]

\* Standard aggregations (when using defaults)
DefaultAggregation(acc, issue) ==
  LET status == issue.status
      type == issue.issuetype
      priority == OrElse(issue.priority, "None")
      assignee == OrElse(issue.assignee, "Unassigned")
      typeRow == IF type \in DOMAIN acc.byTypeAndStatus
                 THEN acc.byTypeAndStatus[type] ELSE EmptyMap
  IN [acc EXCEPT !.byStatus = Inc(@, status),
                 !.byType = Inc(@, type),
                 !.byTypeAndStatus = Put(@, type, Inc(typeRow, status)),
                 !.byPriority = Inc(@, priority),
                 !.byAssignee = Inc(@, assignee)]

\* GroupValues counting the first value of the array alone
GroupValues_FirstValueOnly(acc, field, valueArray) ==
  IF valueArray = <<>> THEN acc
  ELSE [acc EXCEPT !.groupedBy[field] = Inc(@, Head(valueArray))]

\* for (const val of valueArray) groupedBy[field][val] = (groupedBy[field][val] || 0) + 1
RECURSIVE GroupValues(_, _, _)
GroupValues(acc, field, valueArray) ==
  IF valueArray = <<>> THEN acc
  ELSE GroupValues([acc EXCEPT !.groupedBy[field] = Inc(@, Head(valueArray))],
                   field, Tail(valueArray))

\* for (const field of groupByFields) ...
RECURSIVE GroupByAggregation(_, _, _)
GroupByAggregation(acc, issue, groupByFields) ==
  IF groupByFields = <<>> THEN acc
  ELSE GroupByAggregation(
         GroupValues(acc, Head(groupByFields), FieldValueArray(issue, Head(groupByFields))),
         issue, Tail(groupByFields))

ZeroTotal == [count |-> 0, sum |-> 0]
ZeroCell == [count |-> 0, sum |-> 0, values |-> {}]

\* PivotCell setting a cell's count to 1 at every contribution
PivotCell_CountSetToOne(acc, row, col, numericValue, issueKey) ==
  LET rowMap == IF row \in DOMAIN acc.pivotData THEN acc.pivotData[row] ELSE EmptyMap
      cell == IF col \in DOMAIN rowMap THEN rowMap[col] ELSE [count |-> 0, sum |-> 0, values |-> {}]
      rt == IF row \in DOMAIN acc.pivotRowTotals THEN acc.pivotRowTotals[row]
                                                 ELSE [count |-> 0, sum |-> 0]
      ct == IF col \in DOMAIN acc.pivotColTotals THEN acc.pivotColTotals[col]
                                                 ELSE [count |-> 0, sum |-> 0]
      bump(t) == [count |-> t.count + 1, sum |-> t.sum + numericValue]
  IN [acc EXCEPT
        !.pivotData = Put(@, row, Put(rowMap, col,
                          [count |-> 1,
                           sum |-> cell.sum + numericValue,
                           values |-> cell.values \cup {issueKey}])),
        !.pivotRowTotals = Put(@, row, bump(rt)),
        !.pivotColTotals = Put(@, col, bump(ct)),
        !.pivotGrandTotal = bump(@)]

\* PivotCell without the column totals' update
PivotCell_NoColumnTotal(acc, row, col, numericValue, issueKey) ==
  LET rowMap == IF row \in DOMAIN acc.pivotData THEN acc.pivotData[row] ELSE EmptyMap
      cell == IF col \in DOMAIN rowMap THEN rowMap[col] ELSE [count |-> 0, sum |-> 0, values |-> {}]
      rt == IF row \in DOMAIN acc.pivotRowTotals THEN acc.pivotRowTotals[row]
                                                 ELSE [count |-> 0, sum |-> 0]
      bump(t) == [count |-> t.count + 1, sum |-> t.sum + numericValue]
  IN [acc EXCEPT
        !.pivotData = Put(@, row, Put(rowMap, col,
                          [count |-> cell.count + 1,
                           sum |-> cell.sum + numericValue,
                           values |-> cell.values \cup {issueKey}])),
        !.pivotRowTotals = Put(@, row, bump(rt)),
        !.pivotGrandTotal = bump(@)]

\* The body of the (row, col) double loop of the custom pivot aggregation.
PivotCell(acc, row, col, numericValue, issueKey) ==
  LET rowMap == IF row \in DOMAIN acc.pivotData THEN acc.pivotData[row] ELSE EmptyMap
      cell == IF col \in DOMAIN rowMap THEN rowMap[col] ELSE ZeroCell
      rt == IF row \in DOMAIN acc.pivotRowTotals THEN acc.pivotRowTotals[row] ELSE ZeroTotal
      ct == IF col \in DOMAIN acc.pivotColTotals THEN acc.pivotColTotals[col] ELSE ZeroTotal
      bump(t) == [count |-> t.count + 1, sum |-> t.sum + numericValue]
  IN [acc EXCEPT
        !.pivotData = Put(@, row, Put(rowMap, col,
                          [count |-> cell.count + 1,
                           sum |-> cell.sum + numericValue,
                           values |-> cell.values \cup {issueKey}])),
        !.pivotRowTotals = Put(@, row, bump(rt)),
        !.pivotColTotals = Put(@, col, bump(ct)),
        !.pivotGrandTotal = bump(@)]

RECURSIVE PivotCols(_, _, _, _, _)
PivotCols(acc, row, colArray, numericValue, issueKey) ==
  IF colArray = <<>> THEN acc
  ELSE PivotCols(PivotCell(acc, row, Head(colArray), numericValue, issueKey),
                 row, Tail(colArray), numericValue, issueKey)

RECURSIVE PivotRows(_, _, _, _, _)
PivotRows(acc, rowArray, colArray, numericValue, issueKey) ==
  IF rowArray = <<>> THEN acc
  ELSE PivotRows(PivotCols(acc, Head(rowArray), colArray, numericValue, issueKey),
                 Tail(rowArray), colArray, numericValue, issueKey)

\* Custom pivot aggregation of one issue
PivotAggregation(acc, issue, pivot) ==
  LET numericValue == IF pivot.valueField # ""
                      THEN NumericValueOrZero(RawField(issue, pivot.valueField))
                      ELSE 1
  IN PivotRows(acc, FieldValueArray(issue, pivot.rowField),
               FieldValueArray(issue, pivot.columnField), numericValue, issue.key)

\* IssuePasses without the test of the issue type
IssuePasses_ProjectOnly(issue, projectAllowlist, issueTypeAllowlist) ==
  isProjectAllowed(getProjectFromIssueKey(issue.key), projectAllowlist)

\* The allowlist test at the head of the per-issue loop
IssuePasses(issue, projectAllowlist, issueTypeAllowlist) ==
  /\ isProjectAllowed(getProjectFromIssueKey(issue.key), projectAllowlist)
  /\ isIssueTypeAllowed(issue.issuetype, issueTypeAllowlist)

\* One iteration of for (const issue of response.issues), for a valid key
AggregateIssue(acc, issue, opts, projectAllowlist, issueTypeAllowlist) ==
  IF ~IssuePasses(issue, projectAllowlist, issueTypeAllowlist) THEN acc
  ELSE LET a0 == [acc EXCEPT !.analyzed = @ + 1]
           a1 == IF ~opts.groupBy.given THEN DefaultAggregation(a0, issue) ELSE a0
           a2 == GroupByAggregation(a1, issue, opts.groupBy.fields)
       IN IF opts.pivot.given THEN PivotAggregation(a2, issue, opts.pivot) ELSE a2

\* for (const issue of response.issues) { ... }, the issues taken in order (the
\* page is folded by halves, left half first)
RECURSIVE AggregatePage(_, _, _, _, _)
AggregatePage(acc, issues, opts, projectAllowlist, issueTypeAllowlist) ==
  IF issues = <<>> THEN acc
  ELSE IF Len(issues) = 1
  THEN AggregateIssue(acc, issues[1], opts, projectAllowlist, issueTypeAllowlist)
  ELSE LET half == Len(issues) \div 2
           left == AggregatePage(acc, SubSeq(issues, 1, half), opts,
                                 projectAllowlist, issueTypeAllowlist)
       IN IF left.analyzed >= 0
          THEN AggregatePage(left, SubSeq(issues, half + 1, Len(issues)), opts,
                             projectAllowlist, issueTypeAllowlist)
          ELSE left

\* ------------------------------------------------------------ result build
\* cell.sum / cell.count is kept exact, as the fraction num/den
Fraction(sum, count) == IF count > 0 THEN [num |-> sum, den |-> count]
                                     ELSE [num |-> 0, den |-> 1]

\* Object.keys(pivotData) (sorted in the code; the order plays no part here)
PivotRowKeys(acc) == DOMAIN acc.pivotData
\* [...new Set(rows.flatMap(r => Object.keys(pivotData[r])))]
PivotColumnKeys(acc) == UNION {DOMAIN acc.pivotData[r] : r \in DOMAIN acc.pivotData}

\* Convert pivot data based on action
PivotCellValue(acc, action, row, col) ==
  IF col \notin DOMAIN acc.pivotData[row]
  THEN (IF action = "avg" THEN Fraction(0, 0) ELSE 0)
  ELSE LET cell == acc.pivotData[row][col]
       IN CASE action = "count" -> cell.count
            [] action = "sum" -> cell.sum
            [] action = "avg" -> Fraction(cell.sum, cell.count)
            [] action = "cardinality" -> Cardinality(cell.values)

\* PivotRowTotal answering the row's count where its sum is asked
PivotRowTotal_CountForSum(acc, action, row) ==
  LET t == IF row \in DOMAIN acc.pivotRowTotals THEN acc.pivotRowTotals[row] ELSE ZeroTotal
  IN CASE action = "count" -> t.count
       [] action = "sum" -> t.count
       [] action = "avg" -> Fraction(t.sum, t.count)
       [] action = "cardinality" ->
            SumMap([c \in DOMAIN acc.pivotData[row] |->
                      Cardinality(acc.pivotData[row][c].values)])

PivotRowTotal(acc, action, row) ==
  LET t == IF row \in DOMAIN acc.pivotRowTotals THEN acc.pivotRowTotals[row] ELSE ZeroTotal
  IN CASE action = "count" -> t.count
       [] action = "sum" -> t.sum
       [] action = "avg" -> Fraction(t.sum, t.count)
       [] action = "cardinality" ->
            SumMap([c \in DOMAIN acc.pivotData[row] |->
                      Cardinality(acc.pivotData[row][c].values)])

PivotColTotal(acc, action, col) ==
  LET t == IF col \in DOMAIN acc.pivotColTotals THEN acc.pivotColTotals[col] ELSE ZeroTotal
  IN CASE action = "count" -> t.count
       [] action = "sum" -> t.sum
       [] action = "avg" -> Fraction(t.sum, t.count)
       [] action = "cardinality" ->
            Cardinality(UNION {acc.pivotData[r][col].values :
                                 r \in {x \in DOMAIN acc.pivotData :
                                          col \in DOMAIN acc.pivotData[x]}})

PivotGrand(acc, action) ==
  CASE action = "count" -> acc.pivotGrandTotal.count
    [] action = "sum" -> acc.pivotGrandTotal.sum
    [] action = "avg" -> Fraction(acc.pivotGrandTotal.sum, acc.pivotGrandTotal.count)
    [] action = "cardinality" -> acc.analyzed

NoPivotResult ==
  [rows |-> {}, columns |-> {}, data |-> EmptyMap,
   totals |-> [rows |-> EmptyMap, columns |-> EmptyMap, grand |-> 0]]

\* if (options.pivot) { ... result.pivot = {...} }
BuildPivot(acc, pivot) ==
  LET action == OrElse(pivot.action, "count")
      rows == PivotRowKeys(acc)
      columns == PivotColumnKeys(acc)
  IN [rows |-> rows,
      columns |-> columns,
      data |-> [r \in rows |-> [c \in columns |-> PivotCellValue(acc, action, r, c)]],
      totals |-> [rows |-> [r \in rows |-> PivotRowTotal(acc, action, r)],
                  columns |-> [c \in columns |-> PivotColTotal(acc, action, c)],
                  grand |-> PivotGrand(acc, action)]]

\* total: totalFromJira || analyzed
ResultTotal(total, analyzed) == IF total # 0 THEN total ELSE analyzed

NoResult ==
  [given |-> FALSE, total |-> 0, analyzed |-> 0, hasDefault |-> FALSE,
   byStatus |-> EmptyMap, byType |-> EmptyMap, byPriority |-> EmptyMap,
   byAssignee |-> EmptyMap, byTypeAndStatus |-> EmptyMap,
   hasGroupedBy |-> FALSE, groupedBy |-> EmptyMap,
   hasPivot |-> FALSE, pivot |-> NoPivotResult]

\* "Build result" up to return result
BuildResult(acc, total, opts) ==
  LET useDefaultGroups == ~opts.groupBy.given
  IN [given |-> TRUE,
      total |-> ResultTotal(total, acc.analyzed),
      analyzed |-> acc.analyzed,
      hasDefault |-> useDefaultGroups,
      byStatus |-> IF useDefaultGroups THEN acc.byStatus ELSE EmptyMap,
      byType |-> IF useDefaultGroups THEN acc.byType ELSE EmptyMap,
      byPriority |-> IF useDefaultGroups THEN acc.byPriority ELSE EmptyMap,
      byAssignee |-> IF useDefaultGroups THEN acc.byAssignee ELSE EmptyMap,
      byTypeAndStatus |-> IF useDefaultGroups THEN acc.byTypeAndStatus ELSE EmptyMap,
      hasGroupedBy |-> Len(opts.groupBy.fields) > 0,
      groupedBy |-> IF Len(opts.groupBy.fields) > 0 THEN acc.groupedBy ELSE EmptyMap,
      hasPivot |-> opts.pivot.given,
      pivot |-> IF opts.pivot.given THEN BuildPivot(acc, opts.pivot) ELSE NoPivotResult]

\* ------------------------------------------------------------ query builder
\* A JQL text is a sequence of chunks: a blank, a line break, the words ORDER
\* and BY in some letter case, or any other text with no white space at either
\* end, no line break and no "order by" inside.
Blank == " "
LineBreak == "\n"
IsSpace(c) == c \in {Blank, LineBreak}
IsOrderWord(c) == c \in {"ORDER", "order"}
IsByWord(c) == c \in {"BY", "by"}
NoLineBreak(q) == \A i \in DOMAIN q : q[i] # LineBreak

\* String.prototype.trim
RECURSIVE TrimLeft(_)
TrimLeft(q) == IF q # <<>> /\ IsSpace(Head(q)) THEN TrimLeft(Tail(q)) ELSE q
RECURSIVE TrimRight(_)
TrimRight(q) ==
  IF q # <<>> /\ IsSpace(q[Len(q)]) THEN TrimRight(SubSeq(q, 1, Len(q) - 1)) ELSE q
Trim(q) == TrimLeft(TrimRight(q))

\* The chunks from position p on match ORDER\s+BY\s+ : the place just after the
\* last white space of the second \s+, else 0.
RECURSIVE SkipSpaces(_, _)
SkipSpaces(q, i) == IF i <= Len(q) /\ IsSpace(q[i]) THEN SkipSpaces(q, i + 1) ELSE i

AfterOrderBy(q, p) ==
  IF p > Len(q) \/ ~IsOrderWord(q[p]) THEN 0
  ELSE LET b == SkipSpaces(q, p + 1)
       IN IF b = p + 1 \/ b > Len(q) \/ ~IsByWord(q[b]) THEN 0
          ELSE LET e == SkipSpaces(q, b + 1)
               IN IF e = b + 1 THEN 0 ELSE e

\* jql.match(/^(.*?)\s*(ORDER\s+BY\s+.*)$/i) can start its second group at p:
\* "." matches no line break, neither in group 1 nor after the clause's keyword.
OrderByMatchesAt(q, p) ==
  /\ AfterOrderBy(q, p) # 0
  /\ NoLineBreak(SubSeq(q, AfterOrderBy(q, p), Len(q)))
  /\ NoLineBreak(TrimRight(SubSeq(q, 1, p - 1)))

\* The lazy first group makes the leftmost possible start win; 0 is "no match".
OrderByMatch(q) ==
  IF \E p \in 1..Len(q) : OrderByMatchesAt(q, p)
  THEN CHOOSE p \in 1..Len(q) :
         OrderByMatchesAt(q, p) /\ \A r \in 1..(p - 1) : ~OrderByMatchesAt(q, r)
  ELSE 0

\* let baseJql = orderByMatch ? orderByMatch[1].trim() : jql
BaseJql(q) ==
  IF OrderByMatch(q) # 0 THEN Trim(TrimRight(SubSeq(q, 1, OrderByMatch(q) - 1))) ELSE q
\* const orderByClause = orderByMatch ? orderByMatch[2] : ''
OrderByClause(q) ==
  IF OrderByMatch(q) # 0 THEN SubSeq(q, OrderByMatch(q), Len(q)) ELSE <<>>

\* array.join(sep) of text fragments
RECURSIVE Join(_, _)
Join(parts, sep) ==
  IF parts = <<>> THEN ""
  ELSE IF Len(parts) = 1 THEN parts[1]
  ELSE parts[1] \o sep \o Join(Tail(parts), sep)

Quoted(v) == "\"" \o v \o "\""
QuoteAll(vs) == [i \in DOMAIN vs |-> Quoted(vs[i])]

\* A board as getBoard returns it; projectKey "" when it has no location.
NoBoard == [projectKey |-> ""]

\* A value of a FieldFilter: a string or an array of strings.
NoFilterValue == [isArray |-> FALSE, str |-> "", arr |-> <<>>]
OneValue(v) == [isArray |-> FALSE, str |-> v, arr |-> <<>>]
ManyValues(vs) == [isArray |-> TRUE, str |-> "", arr |-> vs]

\* The switch (filter.operator) of "Add field filters to JQL": the fragments
\* one field filter pushes.
FieldFilterFragments(filter) ==
  CASE filter.operator = "eq" -> <<filter.field \o " = " \o Quoted(filter.value.str)>>
    [] filter.operator = "in" ->
         IF filter.value.isArray
         THEN <<filter.field \o " IN (" \o Join(QuoteAll(filter.value.arr), ", ") \o ")">>
         ELSE <<>>
    [] filter.operator = "not" -> <<filter.field \o " != " \o Quoted(filter.value.str)>>
    [] filter.operator = "contains" -> <<filter.field \o " ~ " \o Quoted(filter.value.str)>>
    [] filter.operator = "empty" -> <<filter.field \o " IS EMPTY">>
    [] filter.operator = "notEmpty" -> <<filter.field \o " IS NOT EMPTY">>
    [] OTHER -> <<>>

RECURSIVE AllFieldFilterFragments(_)
AllFieldFilterFragments(fs) ==
  IF fs = <<>> THEN <<>>
  ELSE FieldFilterFragments(Head(fs)) \o AllFieldFilterFragments(Tail(fs))

\* a.toLowerCase() === 'unassigned' on the assignee names of the model
IsUnassigned(a) == a \in {"unassigned", "Unassigned"}
AssigneeFilters(as) ==
  [i \in DOMAIN as |-> IF IsUnassigned(as[i]) THEN "assignee IS EMPTY"
                                              ELSE "assignee = " \o Quoted(as[i])]

\* Sprint ids of the model, as template literals print them.
NumberText(n) == CASE n = 1 -> "1" [] n = 2 -> "2" [] OTHER -> "0"

\* "Build filter conditions": const filters up to the end of the field filters.
\* board is the answer of getBoard when options.boardId is set.
BuildFilters(opts, board) ==
  (IF opts.boardId # 0 /\ board.projectKey # ""
   THEN <<"project = " \o Quoted(board.projectKey)>> ELSE <<>>)
  \o (IF opts.excludeResolved THEN <<"resolution IS EMPTY">> ELSE <<>>)
  \o (IF Len(opts.issueTypes) > 0
      THEN <<"issuetype IN (" \o Join(QuoteAll(opts.issueTypes), ", ") \o ")">> ELSE <<>>)
  \o (IF Len(opts.assignees) > 0
      THEN <<"(" \o Join(AssigneeFilters(opts.assignees), " OR ") \o ")">> ELSE <<>>)
  \o (IF opts.sprint # 0 THEN <<"sprint = " \o NumberText(opts.sprint)>> ELSE <<>>)
  \o AllFieldFilterFragments(opts.fieldFilters)

\* "Combine base JQL with filters" and "Re-add ORDER BY clause if present"
ComposeJql(q, filters) ==
  LET base == Trim(BaseJql(q))
      withFilters ==
        IF Len(filters) > 0
        THEN (IF base # <<>> THEN base \o <<" AND " \o Join(filters, " AND ")>>
                             ELSE <<Join(filters, " AND ")>>)
        ELSE base
  IN IF OrderByClause(q) # <<>> THEN withFilters \o <<Blank>> \o OrderByClause(q)
                                ELSE withFilters

\* -------------------------------------------------------- permission scopes
\* SCOPES: the tools of each scope
SCOPES ==
  [s \in {"boards:read", "sprints:read", "issues:read", "issues:write",
          "comments:read", "comments:write", "attachments:read", "attachments:write"} |->
     CASE s = "boards:read" -> {"jira_list_boards"}
       [] s = "sprints:read" ->
            {"jira_get_active_sprint", "jira_get_sprint_issues", "jira_get_my_sprint_issues"}
       [] s = "issues:read" ->
            {"jira_get_issue", "jira_search_issues", "jira_get_transitions",
             "jira_get_issue_history"}
       [] s = "issues:write" ->
            {"jira_create_issue", "jira_update_issue", "jira_transition_issue"}
       [] s = "comments:read" -> {"jira_get_issue_comments"}
       [] s = "comments:write" -> {"jira_add_comment"}
       [] s = "attachments:read" -> {"jira_list_attachments", "jira_download_attachment"}
       [] s = "attachments:write" -> {"jira_upload_attachment"}]

\* Names for which `scope in SCOPES` also holds, as properties every object
\* inherits; SCOPES[scope] is then not iterable and the for-of throws.
InheritedProperties == {"constructor", "toString"}

getAllToolNames == UNION {SCOPES[s] : s \in DOMAIN SCOPES}

\* process.env.X: undefined, or a text (a sequence of chunks)
NoEnv == [set |-> FALSE, text |-> <<>>]
Env(text) == [set |-> TRUE, text |-> text]

\* String.prototype.split(separator), on a sequence of chunks
RECURSIVE Split(_, _)
Split(text, separator) ==
  IF \A i \in DOMAIN text : text[i] # separator THEN <<text>>
  ELSE LET i == CHOOSE k \in DOMAIN text :
                  text[k] = separator /\ \A j \in 1..(k - 1) : text[j] # separator
       IN <<SubSeq(text, 1, i - 1)>> \o Split(SubSeq(text, i + 1, Len(text)), separator)

\* envValue.split(',').map(s => s.trim()).filter(s => s !== '')
RequestedScopes(text) ==
  {Cat(Trim(item)) : item \in Range(Split(text, ","))} \ {""}

\* !envValue || envValue.trim() === ''
EnvIsEmpty(envValue) == ~envValue.set \/ Trim(envValue.text) = <<>>

\* parseScopes answering every tool when no requested scope is valid
parseScopes_NoneValidMeansAll(envValue) ==
  IF EnvIsEmpty(envValue) THEN [threw |-> FALSE, tools |-> getAllToolNames]
  ELSE LET requestedScopes == RequestedScopes(envValue.text)
           granted == UNION {SCOPES[s] : s \in requestedScopes \cap DOMAIN SCOPES}
       IN [threw |-> requestedScopes \cap InheritedProperties # {},
           tools |-> IF granted = {} THEN getAllToolNames ELSE granted]

\* parseScopes: the set of allowed tool names, or the TypeError of the for-of
parseScopes(envValue) ==
  IF EnvIsEmpty(envValue) THEN [threw |-> FALSE, tools |-> getAllToolNames]
  ELSE LET requestedScopes == RequestedScopes(envValue.text)
       IN [threw |-> requestedScopes \cap InheritedProperties # {},
           tools |-> UNION {SCOPES[s] : s \in requestedScopes \cap DOMAIN SCOPES}]

isToolAllowed(toolName, allowedToolNames) == toolName \in allowedToolNames

\* allTools: the names of the tools the server registers
allTools ==
  {"jira_list_boards", "jira_get_active_sprint", "jira_list_sprints",
   "jira_get_sprint_issues", "jira_get_my_sprint_issues", "jira_get_issue",
   "jira_search_issues", "jira_get_backlog_stats", "jira_get_sprint_report",
   "jira_get_issue_comments", "jira_update_issue", "jira_get_transitions",
   "jira_get_issue_history", "jira_transition_issue", "jira_add_comment",
   "jira_create_issue", "jira_list_attachments", "jira_download_attachment",
   "jira_upload_attachment", "jira_get_field_schema", "jira_get_create_fields",
   "jira_list_field_values", "jira_debug_search"}

\* The case labels of the switch of the CallTool handler
ToolCases == allTools

NoToolList == [given |-> FALSE, tools |-> {}]
NoToolAnswer == [given |-> FALSE, name |-> "", isError |-> FALSE, text |-> <<>>]
\* { content: [{ type: 'text', text: `Error: Unknown tool: ${name}` }], isError: true }
UnknownToolAnswer(name) ==
  [given |-> TRUE, name |-> name, isError |-> TRUE,
   text |-> <<"Error: ", "Unknown tool: ", name>>]

\* ---------------------------------------------------------- board allowlist
\* { ids: null, names: null }
NoBoardAllowlist == [on |-> FALSE, ids |-> {}, names |-> {}]

\* parseInt(item, 10) on a text of digits
RECURSIVE ParseInt(_)
ParseInt(item) ==
  IF item = <<>> THEN 0
  ELSE 10 * ParseInt(SubSeq(item, 1, Len(item) - 1))
       + (CASE item[Len(item)] = "1" -> 1 [] item[Len(item)] = "2" -> 2 [] OTHER -> 3)

\* !isNaN(asNumber) && asNumber.toString() === item
IsIdText(item) == item # <<>> /\ \A i \in DOMAIN item : IsDigit(item[i])

\* item.toLowerCase()
LowerText(item) == Cat([i \in DOMAIN item |-> ToLowerCase(item[i])])

\* parseAllowlist
parseAllowlist(envValue) ==
  IF EnvIsEmpty(envValue) THEN NoBoardAllowlist
  ELSE LET items == {Trim(item) : item \in Range(Split(envValue.text, "|"))} \ {<<>>}
       IN [on |-> TRUE,
           ids |-> {ParseInt(item) : item \in {x \in items : IsIdText(x)}},
           names |-> {LowerText(item) : item \in {x \in items : ~IsIdText(x)}}]

\* isBoardAllowed
isBoardAllowed(boardId, boardName, allowlist) ==
  IF ~allowlist.on THEN TRUE
  ELSE boardId \in allowlist.ids \/ ToLowerCase(boardName) \in allowlist.names

\* -------------------------------------------------------------------- state
VARIABLES
  tool,                    \* the tool call being served, "" when none
  pc,                      \* the backend call the handler awaits, or idle/done/failed
  inflight,                \* that call and its paging arguments
  ncalls,                  \* backend calls issued while serving this tool call
  failures,                \* backend calls that were answered with an error
  error,                   \* the message of the error returned, "" when none
  \* getBacklogStats: arguments and locals
  jql, options,
  projectAllowlist, issueTypeAllowlist,
  filters, finalJql,       \* query builder locals
  resolvedValueFieldName,
  acc,                     \* analyzed and the aggregation accumulators
  totalFromJira, pageCount, nextPageToken,
  requests,                \* searchIssues requests issued by this run
  fetched,                 \* issues the backend has returned to this run
  returnedIssues,          \* those issues, each with the times it was returned
  lastResponse,            \* what the last search response of this run announced
  result,                  \* what getBacklogStats returned
  \* jira_get_sprint_report: arguments and locals of getSprintReport
  args,                    \* the arguments of the tool call
  reportOptions,           \* options, as the dispatcher builds them
  reportAllowlists,        \* issueTypeAllowlist and projectAllowlist parameters
  currentSprint, previousSprint,
  storyPointsFieldName,
  phase,                   \* the awaited step of the report, a position in its plan
  subResults,              \* what the finished sub-aggregations returned, by position
  inflowMetrics,           \* what the finished getInflowMetrics calls returned
  candidateIssues, candidate, inflowIssues, inflowPoints,
  checked,                 \* the change history last scanned, and how it counted
  report,                  \* what getSprintReport returned
  \* the environment
  sprintReportDefaults,    \* defaults read from the process environment
  backend,                 \* the data set the backend answers searches from
  jiraScopes,              \* process.env.JIRA_SCOPES
  boardAllowlist,          \* parseAllowlist(process.env.JIRA_ALLOWED_BOARDS)
  \* jira_get_sprint_issues and jira_get_my_sprint_issues
  sprintIssues,            \* sprintId, sprint and return value of getSprintIssues
  \* the server: what it derived from the environment at start, and its answers
  allowedTools,            \* parseScopes(process.env.JIRA_SCOPES)
  toolList,                \* the answer to the last ListTools request
  toolAnswer               \* the answer of the CallTool handler's scope check

callVars == <<tool, pc, inflight, ncalls, failures, error>>

statsLocals ==
  <<jql, options, projectAllowlist, issueTypeAllowlist, filters, finalJql,
    resolvedValueFieldName, acc, totalFromJira, pageCount, nextPageToken,
    requests, fetched, returnedIssues, lastResponse, result>>

inflowLocals == <<candidateIssues, candidate, inflowIssues, inflowPoints, checked>>

reportLocals ==
  <<args, reportOptions, reportAllowlists, currentSprint, previousSprint,
    storyPointsFieldName, phase, subResults, inflowMetrics, inflowLocals, report>>

serverVars == <<allowedTools, toolList, toolAnswer>>

\* What the handlers of the scope check and of the tool list leave alone
toolEnv == <<sprintReportDefaults, backend, jiraScopes, boardAllowlist, sprintIssues>>

\* What getBacklogStats and getSprintReport leave alone
envVars == <<toolEnv, serverVars>>

vars == <<callVars, statsLocals, reportLocals, envVars>>

NoCall == [call |-> "", token |-> "", startAt |-> 0, maxResults |-> 0]
Call(name, token) == [call |-> name, token |-> token, startAt |-> 0, maxResults |-> 0]

BaseOptions ==
  [excludeResolved |-> FALSE, issueTypes |-> <<>>, assignees |-> <<>>, sprint |-> 0,
   boardId |-> 0, groupBy |-> NoGroupBy, pivot |-> NoPivot, fieldFilters |-> <<>>]

\* ------------------------------------------------------- backend responses
NoTotal == [given |-> FALSE, n |-> 0]
Total(n) == [given |-> TRUE, n |-> n]
Response(issues, total, isLast, token) ==
  [issues |-> issues, total |-> total, isLast |-> isLast, nextPageToken |-> token]

\* What a search response announced on the continuation of the run: whether
\* its page was empty, its isLast and its nextPageToken
NoResponse == [given |-> FALSE, empty |-> FALSE, isLast |-> FALSE, nextPageToken |-> ""]
Answered(response) ==
  [given |-> TRUE, empty |-> Len(response.issues) = 0, isLast |-> response.isLast,
   nextPageToken |-> response.nextPageToken]

\* getFields answers: a catalog that names the story points field, and one that does not
FieldCatalogs ==
  {<<>>, <<[id |-> StoryPointsField, name |-> "Story Points"]>>}

\* fieldNames[options.pivot.valueField] || options.pivot.valueField
ResolveFieldName(catalog, valueField) ==
  IF \E i \in DOMAIN catalog : catalog[i].id = valueField /\ catalog[i].name # ""
  THEN LET last == CHOOSE i \in DOMAIN catalog :
                     /\ catalog[i].id = valueField
                     /\ \A j \in DOMAIN catalog : catalog[j].id = valueField => j <= i
       IN OrElse(catalog[last].name, valueField)
  ELSE valueField

\* options.pivot?.valueField?.startsWith('customfield_')
NeedsFieldNames(opts) == opts.pivot.given /\ opts.pivot.valueField = StoryPointsField

\* ------------------------------------------------- getBacklogStats, by await
\* SendSearch sending the request for the page after this one along with it
SendSearch_WithNextPage(token, n) ==
  /\ pc' = "search"
  /\ inflight' = [Call("searchIssues", token) EXCEPT !.maxResults = PageSize]
  /\ requests' = n
  /\ ncalls' = ncalls + 2

\* SendSearch asking for the first page again
SendSearch_FirstPageAgain(token, n) ==
  /\ pc' = "search"
  /\ inflight' = [Call("searchIssues", "") EXCEPT !.maxResults = PageSize]
  /\ requests' = n
  /\ ncalls' = ncalls + 1

\* The head of one loop iteration: client.searchIssues(finalJql, 0, pageSize,
\* searchFields, nextPageToken) is sent.
SendSearch(token, n) ==
  /\ pc' = "search"
  /\ inflight' = [Call("searchIssues", token) EXCEPT !.maxResults = PageSize]
  /\ requests' = n
  /\ ncalls' = ncalls + 1

\* From the composed query to the next await: getFields when a custom value
\* field needs its name, else the first search request.
Composed(j, o, board) ==
  /\ filters' = BuildFilters(o, board)
  /\ finalJql' = ComposeJql(j, BuildFilters(o, board))
  /\ resolvedValueFieldName' = ""
  /\ IF NeedsFieldNames(o)
     THEN /\ pc' = "getFields"
          /\ inflight' = Call("getFields", "")
          /\ requests' = 0
          /\ ncalls' = ncalls + 1
     ELSE SendSearch("", 1)

\* getBacklogStats is entered.
BeginStats(j, o, pa, ta) ==
  /\ jql' = j
  /\ options' = o
  /\ projectAllowlist' = pa
  /\ issueTypeAllowlist' = ta
  /\ acc' = [EmptyAcc EXCEPT !.groupedBy = InitGroupedBy(o.groupBy)]
  /\ totalFromJira' = 0
  /\ pageCount' = 0
  /\ nextPageToken' = ""
  /\ fetched' = 0
  /\ returnedIssues' = EmptyBag
  /\ lastResponse' = NoResponse
  /\ result' = NoResult
  /\ error' = ""
  /\ IF o.boardId # 0
     THEN /\ pc' = "getBoard"
          /\ inflight' = Call("getBoard", "")
          /\ filters' = <<>>
          /\ finalJql' = <<>>
          /\ resolvedValueFieldName' = ""
          /\ requests' = 0
          /\ ncalls' = ncalls + 1
     ELSE Composed(j, o, NoBoard)

\* ------------------------------------------------- getSprintReport: values
\* Record<string, string[]> in the order of its entries
StatusGroup(name, statuses) == [name |-> name, statuses |-> statuses]
NoStatusGroups == [given |-> FALSE, groups |-> <<>>]
StatusGroups(groups) == [given |-> TRUE, groups |-> groups]

DEFAULT_STATUS_GROUPS ==
  <<StatusGroup("To Do", <<"To Do", "Open", "Reopened">>),
    StatusGroup("Blocked", <<"Blocked">>),
    StatusGroup("In Progress", <<"In Progress", "Ready to Style">>),
    StatusGroup("Design Review", <<"Design Review">>),
    StatusGroup("To Test", <<"Ready to Test", "To Test", "In Review">>),
    StatusGroup("Done", <<"Done", "Closed", "Invalid", "Parked", "Resolved">>)>>

\* options.statusGroups || DEFAULT_STATUS_GROUPS
EffectiveStatusGroups(o) ==
  IF o.statusGroups.given THEN o.statusGroups.groups ELSE DEFAULT_STATUS_GROUPS

\* statusGroups[name] || fallback
GroupStatuses(groups, name, fallback) ==
  IF \E i \in DOMAIN groups : groups[i].name = name
  THEN groups[CHOOSE i \in DOMAIN groups : groups[i].name = name].statuses
  ELSE fallback

doneStatuses(o) == GroupStatuses(EffectiveStatusGroups(o), "Done", <<"Done">>)
toTestStatuses(o) == GroupStatuses(EffectiveStatusGroups(o), "To Test", <<"Ready to Test">>)
fixedStatuses(o) == doneStatuses(o) \o toTestStatuses(o)

\* Object.values(statusGroups).flat()
RECURSIVE Flat(_)
Flat(groups) == IF groups = <<>> THEN <<>> ELSE Head(groups).statuses \o Flat(Tail(groups))

\* Object.values(statusGroups).flat().filter(s => !doneStatuses.includes(s))
notDoneStatuses(o) ==
  SelectSeq(Flat(EffectiveStatusGroups(o)), LAMBDA s : s \notin Range(doneStatuses(o)))

Metrics(issues, storyPoints) == [issues |-> issues, storyPoints |-> storyPoints]
NoMetrics == Metrics(0, 0)
Row(current, hasPrevious, previous) ==
  [current |-> current, hasPrevious |-> hasPrevious, previous |-> previous]

\* A sprint as client.getSprint returns it.  The name is a sequence of
\* characters; startDate carries its time and the date it prints before 'T'.
NoDate == [given |-> FALSE, time |-> 0, date |-> ""]
Date(time, date) == [given |-> TRUE, time |-> time, date |-> date]
\* sprint.originBoardId: sprint n of the backend is a sprint of board n
OriginBoardId(id) == id
Sprint(id, name, startDate) ==
  [id |-> id, name |-> name, startDate |-> startDate, originBoardId |-> OriginBoardId(id)]
NoSprint == Sprint(0, <<>>, NoDate)
\* getSprintIssues has not been called
NoSprintIssues ==
  [sprintId |-> 0, sprint |-> NoSprint, returned |-> FALSE, issues |-> <<>>, total |-> 0]

\* aggregateStatusGroup counting the issues from byStatus alone
aggregateStatusGroup_ByStatusAlone(stats, statuses) ==
  LET pivotData == stats.pivot.data
  IN Metrics(SumSeq([i \in DOMAIN statuses |-> Get(stats.byStatus, statuses[i])]),
             SumSeq([i \in DOMAIN statuses |->
                       IF statuses[i] \in DOMAIN pivotData
                       THEN SumMap(pivotData[statuses[i]]) ELSE 0]))

\* aggregateStatusGroup
aggregateStatusGroup(stats, statuses) ==
  LET byStatus == IF stats.hasGroupedBy /\ "status" \in DOMAIN stats.groupedBy
                  THEN stats.groupedBy["status"]
                  ELSE stats.byStatus
      pivotData == stats.pivot.data
  IN Metrics(SumSeq([i \in DOMAIN statuses |-> Get(byStatus, statuses[i])]),
             SumSeq([i \in DOMAIN statuses |->
                       IF statuses[i] \in DOMAIN pivotData
                       THEN SumMap(pivotData[statuses[i]]) ELSE 0]))

\* getBugMetrics
getBugMetrics(stats, fixed, o) ==
  LET pivotData == stats.pivot.data
      selected == {status \in DOMAIN pivotData :
                     (status \in Range(fixedStatuses(o))) = fixed}
      bugRow == IF "Bug" \in DOMAIN stats.byTypeAndStatus
                THEN stats.byTypeAndStatus["Bug"] ELSE EmptyMap
  IN Metrics(SumMap([status \in selected |-> Get(bugRow, status)]),
             SumMap([status \in selected |-> Get(pivotData[status], "Bug")]))

\* { issues: stats.total, storyPoints: stats.pivot?.totals?.grand || 0 }
TotalMetrics(stats) ==
  Metrics(stats.total, IF stats.hasPivot THEN stats.pivot.totals.grand ELSE 0)

\* allFields.find(f => f.id === options.storyPointsField)?.name
FindFieldName(catalog, id) ==
  IF \E i \in DOMAIN catalog : catalog[i].id = id
  THEN catalog[CHOOSE i \in DOMAIN catalog :
                 /\ catalog[i].id = id
                 /\ \A j \in DOMAIN catalog : catalog[j].id = id => i <= j].name
  ELSE ""

\* --------------------------------------- getSprintReport: the awaited steps
\* The steps of getSprintReport after the field catalog, in the order the code
\* awaits them; a step the code skips (no previous sprint, an option that is
\* off, a sprint without start date) is not in the plan.
Phase(kind, which, label) == [kind |-> kind, which |-> which, label |-> label]

RECURSIVE LabelPhases(_, _)
LabelPhases(labels, hasPrevious) ==
  IF labels = <<>> THEN <<>>
  ELSE <<Phase("label", "current", Head(labels))>>
       \o (IF hasPrevious THEN <<Phase("label", "previous", Head(labels))>> ELSE <<>>)
       \o LabelPhases(Tail(labels), hasPrevious)

Plan(o, cur, prev) ==
  LET hasPrevious == o.previousSprintId # 0
      dated(which, sprint) == sprint.startDate.given /\ (which = "previous" => hasPrevious)
      optional(on, kind) ==
        (IF on /\ dated("current", cur) THEN <<Phase(kind, "current", "")>> ELSE <<>>)
        \o (IF on /\ dated("previous", prev) THEN <<Phase(kind, "previous", "")>> ELSE <<>>)
  IN <<Phase("sprintStats", "current", "")>>
     \o (IF hasPrevious THEN <<Phase("sprintStats", "previous", "")>> ELSE <<>>)
     \o optional(o.includeTriage, "triage")
     \o optional(o.includeInflow, "inflow")
     \o <<Phase("bugBacklog", "current", ""), Phase("bugs", "current", "")>>
     \o (IF hasPrevious THEN <<Phase("bugs", "previous", "")>> ELSE <<>>)
     \o LabelPhases(o.labelsOfInterest, hasPrevious)

SprintIdOf(o, which) == IF which = "current" THEN o.sprintId ELSE o.previousSprintId

\* The base query of the sub-aggregation of a step
PhaseJql(o, ph, sprint) ==
  CASE ph.kind = "sprintStats" -> <<"project = " \o o.projectKey>>
    [] ph.kind = "triage" ->
         <<"project = " \o o.projectKey \o " AND sprint = "
             \o NumberText(SprintIdOf(o, ph.which)) \o " AND created >= "
             \o Quoted(sprint.startDate.date)>>
    [] ph.kind = "bugBacklog" ->
         <<"project = " \o o.projectKey \o " AND type = Bug AND sprint IS EMPTY">>
    [] ph.kind = "bugs" -> <<"project = " \o o.projectKey \o " AND type = Bug">>
    [] ph.kind = "label" ->
         <<"project = " \o o.projectKey \o " AND labels = " \o Quoted(ph.label)>>

\* The options of the sub-aggregation of a step
PhaseOptions(o, ph) ==
  LET byStatusAndType == Pivot("status", "type", "sum", o.storyPointsField)
  IN CASE ph.kind \in {"sprintStats", "bugs", "label"} ->
            [BaseOptions EXCEPT !.sprint = SprintIdOf(o, ph.which),
                                !.groupBy = GroupBy(<<"status">>),
                                !.pivot = byStatusAndType]
       [] ph.kind = "triage" -> [BaseOptions EXCEPT !.pivot = byStatusAndType]
       [] ph.kind = "bugBacklog" ->
            [BaseOptions EXCEPT !.excludeResolved = TRUE,
                                !.pivot = Pivot("priority", "status", "sum",
                                                o.storyPointsField)]

\* ------------------------------------------ getSprintReport: the inflow scan
\* client.getIssueChangelog(issue.key, 100): the second parameter of
\* getIssueChangelog(issueKey, startAt = 0, maxResults = 100) is startAt.
ChangelogArgument == 100
DefaultChangelogMaxResults == 100

getIssueChangelog(startAt, maxResults) ==
  [call |-> "getIssueChangelog", token |-> "", startAt |-> startAt,
   maxResults |-> maxResults]

\* String.prototype.includes on sequences of characters
Includes(text, part) ==
  \E i \in 0..(Len(text) - Len(part)) : SubSeq(text, i + 1, i + Len(part)) = part

NoText == [given |-> FALSE, chars |-> <<>>]
Text(chars) == [given |-> TRUE, chars |-> chars]

\* item.field === 'Sprint' && item.toString?.includes(sprintName)
ItemMatches(item, sprintName) ==
  item.field = "Sprint" /\ item.toString.given /\ Includes(item.toString.chars, sprintName)

\* One entry of changelog.values: skipped when changeTime <= sprintStartTime;
\* else the first matching item counts the issue and leaves the items loop.
EntryMatches(entry, sprintStartTime, sprintName) ==
  /\ entry.created > sprintStartTime
  /\ \E i \in DOMAIN entry.items : ItemMatches(entry.items[i], sprintName)

\* The number of inflowIssues++ that the scan of one candidate's entries runs.
Increments(values, sprintStartTime, sprintName) ==
  Cardinality({i \in DOMAIN values : EntryMatches(values[i], sprintStartTime, sprintName)})

\* A change history as the backend keeps it: `padding` entries of day 1 that
\* change the status, followed by the entries of tail.
OlderEntry == [created |-> 1, items |-> <<[field |-> "status", toString |-> NoText]>>]
History(padding, tail) == [padding |-> padding, tail |-> tail]
HistoryLen(history) == history.padding + Len(history.tail)
HistoryEntry(history, i) ==
  IF i <= history.padding THEN OlderEntry ELSE history.tail[i - history.padding]

\* /rest/api/3/issue/{key}/changelog?startAt=..&maxResults=..: the entries of
\* the issue's change history from position startAt on, maxResults at most
ChangelogPage(history, startAt, maxResults) ==
  LET upTo == IF HistoryLen(history) < startAt + maxResults
              THEN HistoryLen(history) ELSE startAt + maxResults
  IN [k \in 1..(upTo - startAt) |-> HistoryEntry(history, startAt + k)]

\* Whether one of the first `count` entries of the history matches
MatchesAmongFirst(history, count, sprintStartTime, sprintName) ==
  \/ history.padding > 0 /\ EntryMatches(OlderEntry, sprintStartTime, sprintName)
  \/ \E j \in DOMAIN history.tail :
       /\ history.padding + j <= count
       /\ EntryMatches(history.tail[j], sprintStartTime, sprintName)

\* typeof points === 'number' ? points : nothing
NumberOrZero(v) == IF v.t = "number" THEN v.n ELSE 0

NoCheck == [given |-> FALSE, amongFirst |-> FALSE, counted |-> 0]

\* ------------------------------------------- getSprintReport: return value
NoReport == [given |-> FALSE]

\* The result a step of the plan left, and whether the plan had the step
HasPhase(plan, ph) == \E i \in DOMAIN plan : plan[i] = ph
ResultOf(plan, results, ph) ==
  results[CHOOSE i \in DOMAIN plan :
            plan[i] = ph /\ \A j \in DOMAIN plan : plan[j] = ph => j <= i]

LabelMetrics(stats, o) ==
  [complete |-> aggregateStatusGroup(stats, doneStatuses(o)),
   notComplete |-> aggregateStatusGroup(stats, notDoneStatuses(o))]

BuildReport(o, cur, prev, fieldName, results, metrics) ==
  LET plan == Plan(o, cur, prev)
      hasPrevious == o.previousSprintId # 0
      groups == EffectiveStatusGroups(o)
      resultOf(kind, which, label) == ResultOf(plan, results, Phase(kind, which, label))
      names == {groups[i].name : i \in DOMAIN groups}
      statusesOf(name) ==
        groups[CHOOSE i \in DOMAIN groups :
                 groups[i].name = name
                 /\ \A j \in DOMAIN groups : groups[j].name = name => j <= i].statuses
      triageOf(which) ==
        IF HasPhase(plan, Phase("triage", which, ""))
        THEN TotalMetrics(resultOf("triage", which, "")) ELSE NoMetrics
      inflowOf(which) == IF which \in DOMAIN metrics THEN metrics[which] ELSE NoMetrics
      bugsRow(fixed) ==
        Row(getBugMetrics(resultOf("bugs", "current", ""), fixed, o), hasPrevious,
            IF hasPrevious THEN getBugMetrics(resultOf("bugs", "previous", ""), fixed, o)
            ELSE NoMetrics)
  IN [given |-> TRUE,
      currentSprint |-> [id |-> cur.id, name |-> Cat(cur.name)],
      hasPreviousSprint |-> hasPrevious,
      previousSprint |-> [id |-> prev.id, name |-> Cat(prev.name)],
      storyPointsField |-> o.storyPointsField,
      storyPointsFieldName |-> fieldName,
      statusGroups |->
        [name \in names |->
           Row(aggregateStatusGroup(resultOf("sprintStats", "current", ""), statusesOf(name)),
               hasPrevious,
               IF hasPrevious
               THEN aggregateStatusGroup(resultOf("sprintStats", "previous", ""),
                                         statusesOf(name))
               ELSE NoMetrics)],
      hasTriage |-> o.includeTriage,
      triage |-> Row(triageOf("current"), hasPrevious, triageOf("previous")),
      hasInflow |-> o.includeInflow,
      inflow |-> Row(inflowOf("current"), hasPrevious, inflowOf("previous")),
      bugs |-> [backlogTotal |-> TotalMetrics(resultOf("bugBacklog", "current", "")),
                fixedInSprint |-> bugsRow(TRUE),
                notFixedInSprint |-> bugsRow(FALSE)],
      labels |->
        [label \in Range(o.labelsOfInterest) |->
           [current |-> LabelMetrics(resultOf("label", "current", label), o),
            hasPrevious |-> hasPrevious,
            previous |-> IF hasPrevious
                         THEN LabelMetrics(resultOf("label", "previous", label), o)
                         ELSE LabelMetrics(NoResult, o)]]]

\* ------------------------------------------------ getSprintReport, by await
ThePlan == Plan(reportOptions, currentSprint, previousSprint)

\* getSprintReport goes on to step i of its plan, results and metrics being
\* what its finished steps returned: the sub-aggregation of the step is
\* entered, or the candidate search of getInflowMetrics is sent, or, the plan
\* being through, the report is returned.  getSprintReport hands its
\* parameters (issueTypeAllowlist, projectAllowlist) to getBacklogStats in
\* that order.
EnterPhase(i, results, metrics) ==
  /\ phase' = i
  /\ subResults' = results
  /\ inflowMetrics' = metrics
  /\ IF i > Len(ThePlan)
     THEN /\ pc' = "done"
          /\ inflight' = NoCall
          /\ report' = BuildReport(reportOptions, currentSprint, previousSprint,
                                   storyPointsFieldName, results, metrics)
          /\ UNCHANGED <<ncalls, error, statsLocals>>
     ELSE IF ThePlan[i].kind = "inflow"
     THEN /\ pc' = "searchCandidates"
          /\ inflight' = [Call("searchIssues", "") EXCEPT !.maxResults = 500]
          /\ ncalls' = ncalls + 1
          /\ UNCHANGED <<error, statsLocals, report>>
     ELSE /\ BeginStats(PhaseJql(reportOptions, ThePlan[i],
                                 IF ThePlan[i].which = "current" THEN currentSprint
                                                                 ELSE previousSprint),
                        PhaseOptions(reportOptions, ThePlan[i]),
                        reportAllowlists.issueTypeAllowlist,
                        reportAllowlists.projectAllowlist)
          /\ UNCHANGED report

\* ------------------------------------------------------ how a call ends
Rejected_RetriedOnce(message) ==
  IF failures = 0
  THEN /\ ncalls' = ncalls + 1
       /\ UNCHANGED <<tool, pc, inflight, error, statsLocals, reportLocals, envVars>>
  ELSE /\ pc' = "failed"
       /\ inflight' = NoCall
       /\ error' = message
       /\ UNCHANGED <<tool, ncalls, statsLocals, reportLocals, envVars>>

\* An error is thrown while the tool call is served: nothing in
\* getBacklogStats or getSprintReport catches it, the catch of the tool call
\* handler returns it as the error of the call.
Rejected(message) ==
  /\ pc' = "failed"
  /\ inflight' = NoCall
  /\ error' = message
  /\ UNCHANGED <<tool, ncalls, statsLocals, reportLocals, envVars>>

\* getProjectFromIssueKey throws inside the loop over a page: nothing in
\* getBacklogStats or getSprintReport catches it, the handler answers with the
\* message.  The issues of the page that was being read are kept as history.
Thrown(message, got) ==
  /\ pc' = "failed"
  /\ inflight' = NoCall
  /\ error' = message
  /\ returnedIssues' = got
  /\ UNCHANGED <<tool, ncalls, failures, jql, options, projectAllowlist,
                 issueTypeAllowlist, filters, finalJql, resolvedValueFieldName,
                 acc, totalFromJira, pageCount, nextPageToken, requests, fetched,
                 lastResponse, result, reportLocals, envVars>>

\* getBacklogStats leaves its loop and returns: to the tool call handler, or
\* to getSprintReport, which goes on to its next step.
Resolved(a, total, pages, token, seen, got, answered) ==
  IF tool = "jira_get_sprint_report"
  THEN /\ EnterPhase(phase + 1, Put(subResults, phase, BuildResult(a, total, options)),
                     inflowMetrics)
       /\ UNCHANGED <<tool, failures, args, reportOptions, reportAllowlists,
                      currentSprint, previousSprint, storyPointsFieldName,
                      inflowLocals, envVars>>
  ELSE /\ pc' = "done"
       /\ inflight' = NoCall
       /\ totalFromJira' = total
       /\ pageCount' = pages
       /\ nextPageToken' = token
       /\ fetched' = seen
       /\ lastResponse' = answered
       /\ returnedIssues' = got
       /\ acc' = a
       /\ result' = BuildResult(a, total, options)
       /\ UNCHANGED <<tool, ncalls, failures, error, jql, options, projectAllowlist,
                      issueTypeAllowlist, filters, finalJql, resolvedValueFieldName,
                      requests, reportLocals, envVars>>

\* client.getBoard answers.
BoardResponse(board) ==
  /\ pc = "getBoard"
  /\ Composed(jql, options, board)
  /\ UNCHANGED <<tool, failures, error, jql, options, projectAllowlist,
                 issueTypeAllowlist, acc, totalFromJira, pageCount, nextPageToken,
                 fetched, returnedIssues, lastResponse, result, reportLocals,
                 envVars>>

\* client.getFields answers getBacklogStats.
FieldsResponse(catalog) ==
  /\ pc = "getFields"
  /\ resolvedValueFieldName' = ResolveFieldName(catalog, options.pivot.valueField)
  /\ SendSearch("", 1)
  /\ UNCHANGED <<tool, failures, error, jql, options, projectAllowlist,
                 issueTypeAllowlist, filters, finalJql, acc, totalFromJira, pageCount,
                 nextPageToken, fetched, returnedIssues, lastResponse, result,
                 reportLocals, envVars>>

LoopContinues_NoCeiling(n) == TRUE

\* while (pageCount < 40)
LoopContinues(n) == n < MaxPages

\* response.issues as a bag: each issue with the times the page holds it
IssueBag(issues) ==
  [i \in Range(issues) |-> Cardinality({k \in DOMAIN issues : issues[k] = i})]

\* client.searchIssues answers getBacklogStats: the rest of the loop body, and
\* either the next request, or the return, or the throw of
\* getProjectFromIssueKey.
SearchResponse(response) ==
  /\ pc = "search"
  /\ LET total == IF response.total.given THEN response.total.n ELSE totalFromJira
         empty == Len(response.issues) = 0
         invalid == \E i \in DOMAIN response.issues :
                      ~ValidIssueKey(response.issues[i].key)
         last == response.isLast \/ response.nextPageToken = ""
         seen == fetched + Len(response.issues)
         got == returnedIssues (+) IssueBag(response.issues)
         answered == Answered(response)
         a == AggregatePage(acc, response.issues, options, projectAllowlist,
                            issueTypeAllowlist)
     IN IF empty
        THEN Resolved(acc, total, pageCount, nextPageToken, seen, got, answered)
        ELSE IF invalid
        THEN Thrown("Invalid issue key format", got)
        ELSE IF last
        THEN Resolved(a, total, pageCount + 1, nextPageToken, seen, got, answered)
        ELSE IF LoopContinues(pageCount + 1)
        THEN /\ totalFromJira' = total
             /\ pageCount' = pageCount + 1
             /\ nextPageToken' = response.nextPageToken
             /\ fetched' = seen
             /\ lastResponse' = answered
             /\ SendSearch(response.nextPageToken, requests + 1)
             /\ returnedIssues' = got
             /\ acc' = a
             /\ UNCHANGED <<tool, failures, error, jql, options, projectAllowlist,
                            issueTypeAllowlist, filters, finalJql,
                            resolvedValueFieldName, result, reportLocals, envVars>>
        ELSE Resolved(a, total, pageCount + 1, response.nextPageToken, seen, got, answered)

AwaitedCalls ==
  {"getBoard", "getFields", "search", "getSprint", "getPreviousSprint",
   "getReportFields", "searchCandidates", "getIssueChangelog",
   "getIssuesSprint", "getIssuesBoard", "searchSprintIssues"}

\* The backend call in flight fails: request() throws 'JIRA API error'.
BackendFails ==
  /\ pc \in AwaitedCalls
  /\ failures' = failures + 1
  /\ Rejected("JIRA API error")

\* case 'jira_get_backlog_stats' of the tool call handler
CallBacklogStats(j, o, pa, ta) ==
  /\ tool = ""
  /\ tool' = "jira_get_backlog_stats"
  /\ UNCHANGED <<failures, reportLocals, envVars>>
  /\ IF j = <<>>
     THEN /\ pc' = "failed"
          /\ error' = "jql is required"
          /\ UNCHANGED <<inflight, ncalls, statsLocals>>
     ELSE BeginStats(j, o, pa, ta)

\* ------------------------------------------ jira_get_sprint_report, by await
NoArgs ==
  [sprintId |-> 0, projectKey |-> "", storyPointsField |-> "", previousSprintId |-> 0,
   labelsOfInterest |-> <<>>, statusGroups |-> NoStatusGroups,
   includeTriage |-> FALSE, includeInflow |-> FALSE]

NoDefaults == [storyPointsField |-> "", statusGroups |-> NoStatusGroups]

\* (args?.storyPointsField as string) || sprintReportDefaults.storyPointsField
EffectiveStoryPointsField(a, defaults) ==
  OrElse(a.storyPointsField, defaults.storyPointsField)

ReportInputError_NoFieldCheck(a, defaults) ==
  IF a.sprintId = 0 \/ a.projectKey = ""
  THEN "sprintId and projectKey are required"
  ELSE ""

\* The two checks of case 'jira_get_sprint_report'; "" when both pass
ReportInputError(a, defaults) ==
  IF a.sprintId = 0 \/ a.projectKey = ""
  THEN "sprintId and projectKey are required"
  ELSE IF EffectiveStoryPointsField(a, defaults) = ""
  THEN "storyPointsField is required"
  ELSE ""

\* const options = {...} of case 'jira_get_sprint_report'
ReportOptions(a, defaults) ==
  [a EXCEPT !.storyPointsField = EffectiveStoryPointsField(a, defaults),
            !.statusGroups = IF a.statusGroups.given THEN a.statusGroups
                                                     ELSE defaults.statusGroups]

\* case 'jira_get_sprint_report' of the tool call handler, up to the first
\* await of getSprintReport: client.getSprint(options.sprintId)
CallSprintReport(a, ita, pa) ==
  /\ tool = ""
  /\ tool' = "jira_get_sprint_report"
  /\ args' = a
  /\ IF ReportInputError(a, sprintReportDefaults) # ""
     THEN /\ pc' = "failed"
          /\ error' = ReportInputError(a, sprintReportDefaults)
          /\ UNCHANGED <<inflight, ncalls, reportOptions, reportAllowlists>>
     ELSE /\ reportOptions' = ReportOptions(a, sprintReportDefaults)
          /\ reportAllowlists' = [issueTypeAllowlist |-> ita, projectAllowlist |-> pa]
          /\ pc' = "getSprint"
          /\ inflight' = Call("getSprint", "")
          /\ ncalls' = ncalls + 1
          /\ UNCHANGED error
  /\ UNCHANGED <<failures, statsLocals, currentSprint, previousSprint,
                 storyPointsFieldName, phase, subResults, inflowMetrics, inflowLocals,
                 report, envVars>>

\* client.getSprint(options.sprintId) answers.
SprintResponse(sprint) ==
  /\ pc = "getSprint"
  /\ currentSprint' = sprint
  /\ IF reportOptions.previousSprintId # 0
     THEN pc' = "getPreviousSprint" /\ inflight' = Call("getSprint", "")
     ELSE pc' = "getReportFields" /\ inflight' = Call("getFields", "")
  /\ ncalls' = ncalls + 1
  /\ UNCHANGED <<tool, failures, error, statsLocals, args, reportOptions,
                 reportAllowlists, previousSprint, storyPointsFieldName, phase,
                 subResults, inflowMetrics, inflowLocals, report, envVars>>

\* client.getSprint(options.previousSprintId) answers.
PreviousSprintResponse(sprint) ==
  /\ pc = "getPreviousSprint"
  /\ previousSprint' = sprint
  /\ pc' = "getReportFields"
  /\ inflight' = Call("getFields", "")
  /\ ncalls' = ncalls + 1
  /\ UNCHANGED <<tool, failures, error, statsLocals, args, reportOptions,
                 reportAllowlists, currentSprint, storyPointsFieldName, phase,
                 subResults, inflowMetrics, inflowLocals, report, envVars>>

\* client.getFields answers getSprintReport, which enters getSprintStats of
\* the current sprint.
ReportFieldsResponse(catalog) ==
  /\ pc = "getReportFields"
  /\ storyPointsFieldName' = FindFieldName(catalog, reportOptions.storyPointsField)
  /\ EnterPhase(1, subResults, inflowMetrics)
  /\ UNCHANGED <<tool, failures, args, reportOptions, reportAllowlists, currentSprint,
                 previousSprint, inflowLocals, envVars>>

\* The sprint whose inflow is being measured
InflowSprint == IF ThePlan[phase].which = "current" THEN currentSprint ELSE previousSprint

\* client.searchIssues answers with the inflow candidates: the counters are
\* declared and the first change history is requested; without candidates
\* getInflowMetrics returns at once.
CandidatesResponse(issues) ==
  /\ pc = "searchCandidates"
  /\ candidateIssues' = issues
  /\ inflowIssues' = 0
  /\ inflowPoints' = 0
  /\ checked' = NoCheck
  /\ UNCHANGED <<tool, failures, args, reportOptions, reportAllowlists, currentSprint,
                 previousSprint, storyPointsFieldName, envVars>>
  /\ IF issues = <<>>
     THEN /\ candidate' = 0
          /\ EnterPhase(phase + 1, subResults,
                        Put(inflowMetrics, ThePlan[phase].which, NoMetrics))
     ELSE /\ candidate' = 1
          /\ pc' = "getIssueChangelog"
          /\ inflight' = getIssueChangelog(ChangelogArgument, DefaultChangelogMaxResults)
          /\ ncalls' = ncalls + 1
          /\ UNCHANGED <<error, statsLocals, phase, subResults, inflowMetrics, report>>

\* client.getIssueChangelog answers with the page of the candidate's history
\* that was asked for: the entries are scanned, and the next candidate's
\* history is requested or getInflowMetrics returns.
ChangelogResponse(history) ==
  /\ pc = "getIssueChangelog"
  /\ LET sprint == InflowSprint
         values == ChangelogPage(history, inflight.startAt, inflight.maxResults)
         n == Increments(values, sprint.startDate.time, sprint.name)
         issues == inflowIssues + n
         points == inflowPoints + n * NumberOrZero(candidateIssues[candidate].sp)
     IN /\ inflowIssues' = issues
        /\ inflowPoints' = points
        /\ checked' =
             [given |-> TRUE,
              amongFirst |->
                MatchesAmongFirst(history, DefaultChangelogMaxResults,
                                  sprint.startDate.time, sprint.name),
              counted |-> n]
        /\ UNCHANGED <<tool, failures, args, reportOptions, reportAllowlists,
                       currentSprint, previousSprint, storyPointsFieldName,
                       candidateIssues, envVars>>
        /\ IF candidate < Len(candidateIssues)
           THEN /\ candidate' = candidate + 1
                /\ ncalls' = ncalls + 1
                /\ UNCHANGED <<pc, inflight, error, statsLocals, phase, subResults,
                               inflowMetrics, report>>
           ELSE /\ UNCHANGED candidate
                /\ EnterPhase(phase + 1, subResults,
                              Put(inflowMetrics, ThePlan[phase].which,
                                  Metrics(issues, points)))

Init ==
  /\ tool = ""
  /\ pc = "idle"
  /\ inflight = NoCall
  /\ ncalls = 0
  /\ failures = 0
  /\ error = ""
  /\ jql = <<>>
  /\ options = BaseOptions
  /\ projectAllowlist = NoAllowlist
  /\ issueTypeAllowlist = NoAllowlist
  /\ filters = <<>>
  /\ finalJql = <<>>
  /\ resolvedValueFieldName = ""
  /\ acc = EmptyAcc
  /\ totalFromJira = 0
  /\ pageCount = 0
  /\ nextPageToken = ""
  /\ requests = 0
  /\ fetched = 0
  /\ returnedIssues = EmptyBag
  /\ lastResponse = NoResponse
  /\ result = NoResult
  /\ args = NoArgs
  /\ reportOptions = NoArgs
  /\ reportAllowlists = [issueTypeAllowlist |-> NoAllowlist, projectAllowlist |-> NoAllowlist]
  /\ currentSprint = NoSprint
  /\ previousSprint = NoSprint
  /\ storyPointsFieldName = ""
  /\ phase = 0
  /\ subResults = EmptyMap
  /\ inflowMetrics = EmptyMap
  /\ candidateIssues = <<>>
  /\ candidate = 0
  /\ inflowIssues = 0
  /\ inflowPoints = 0
  /\ checked = NoCheck
  /\ report = NoReport
  /\ sprintReportDefaults = NoDefaults
  /\ backend = "empty"
  /\ jiraScopes = NoEnv
  /\ boardAllowlist = NoBoardAllowlist
  /\ sprintIssues = NoSprintIssues
  /\ allowedTools = parseScopes(NoEnv)
  /\ toolList = NoToolList
  /\ toolAnswer = NoToolAnswer

\* --------------------------------------------- Spec: one backlog stats call
ProjectAllowlistP == [on |-> TRUE, set |-> {"P"}]
TypeAllowlistBugStory == [on |-> TRUE, set |-> {"bug", "story"}]

Actions == {"count", "sum", "avg", "cardinality"}
\* Pivots over single-valued dimensions, each dimension as a row and as a column
SinglePivotPairs ==
  {<<"status", "type">>, <<"type", "assignee">>, <<"assignee", "priority">>,
   <<"priority", "resolution">>, <<"resolution", "project">>,
   <<"project", "reporter">>, <<"reporter", "status">>}
\* Pivots with a multi-valued dimension
MultiPivotPairs == {<<"labels", "status">>, <<"labels", "components">>}
ValueFieldFor(action) == IF action \in {"sum", "avg"} THEN StoryPointsField ELSE ""

StatsOptions ==
  {[BaseOptions EXCEPT !.groupBy = g] :
     g \in {NoGroupBy, GroupBy(<<>>), GroupBy(<<"labels", "type">>)}}
  \cup
  {[BaseOptions EXCEPT !.pivot = Pivot(rc[1], rc[2], "count", "")] :
     rc \in SinglePivotPairs \cup MultiPivotPairs}
  \cup
  {[BaseOptions EXCEPT !.pivot = Pivot("type", "status", "", "")]}
  \cup
  {[BaseOptions EXCEPT !.groupBy = GroupBy(<<"status">>),
                       !.pivot = Pivot(rc[1], rc[2], a, ValueFieldFor(a))] :
     rc \in {<<"status", "type">>, <<"labels", "status">>},
     a \in Actions \ {"count"}}

StatsAllowlists ==
  {<<NoAllowlist, NoAllowlist>>, <<ProjectAllowlistP, TypeAllowlistBugStory>>}

StatsJql == <<"project = P">>

StatsResponses(room) ==
  {Response(issues, total, isLast, token) :
     issues \in SeqsUpTo(Issues, room),
     total \in {NoTotal, Total(0), Total(2)},
     isLast \in BOOLEAN,
     token \in {"", "t1"}}

Next ==
  \/ \E o \in StatsOptions, al \in StatsAllowlists :
       CallBacklogStats(StatsJql, o, al[1], al[2])
  \/ \E catalog \in FieldCatalogs : FieldsResponse(catalog)
  \/ /\ pc = "search"
     /\ \E response \in StatsResponses(MaxIssues - fetched) : SearchResponse(response)
  \/ BackendFails

Spec == Init /\ [][Next]_vars

\* ------------------------------------------- PagingSpec: the page ceiling
\* A backend that fills every page, or overfills it by one issue, and may go on
\* announcing further pages for ever.
BulkPage(n) == [i \in 1..n |-> IssueA]

PagingOptions == {[BaseOptions EXCEPT !.groupBy = GroupBy(<<"status">>)]}

\* The continuation token the backend hands out with its n-th page: not the
\* token of the page before.
PageToken(n) == IF n % 2 = 1 THEN "t1" ELSE "t2"

\* The answers to the n-th search request
PagingResponses(n) ==
  {Response(issues, total, isLast, token) :
     issues \in {<<>>, BulkPage(PageSize), BulkPage(PageSize + 1)},
     total \in {Total(5000)},
     isLast \in BOOLEAN,
     token \in {"", PageToken(n)}}
  \cup {Response(<<IssueA, IssueG>>, Total(5000), FALSE, PageToken(n))}

NextPaging ==
  \/ \E o \in PagingOptions : CallBacklogStats(StatsJql, o, NoAllowlist, NoAllowlist)
  \/ \E response \in PagingResponses(requests) : SearchResponse(response)
  \/ BackendFails

\* Every request is answered (or fails) in the end.
PagingSpec == Init /\ [][NextPaging]_vars /\ WF_vars(NextPaging)

\* ---------------------------------------------- QuerySpec: query builder
\* getBacklogStats on every short JQL text and a set of filter options; the
\* backend has no issue to return.
JqlChunks == {"x", Blank, LineBreak, "ORDER", "BY"}
ExampleJql == <<"project = X", Blank, "ORDER", Blank, "BY", Blank, "created DESC">>
LowerCaseJql == <<"project = X", Blank, "order", Blank, "by", Blank, "created">>
MultiLineJql ==
  <<"project = X", LineBreak, "AND type = Bug", Blank, "ORDER", Blank, "BY", Blank,
    "created DESC">>
QueryJqls ==
  (SeqsUpTo(JqlChunks, MaxJqlLen) \ {<<>>}) \cup {ExampleJql, LowerCaseJql, MultiLineJql}

QueryOptions ==
  {BaseOptions,
   [BaseOptions EXCEPT !.excludeResolved = TRUE],
   [BaseOptions EXCEPT !.issueTypes = <<"Bug", "Story">>,
                       !.assignees = <<"unassigned", "Alice">>,
                       !.sprint = 1],
   [BaseOptions EXCEPT !.fieldFilters =
      <<[field |-> "labels", operator |-> "in", value |-> ManyValues(<<"a", "b">>)],
        [field |-> "labels", operator |-> "in", value |-> OneValue("a")],
        [field |-> "fixVersion", operator |-> "empty", value |-> NoFilterValue],
        [field |-> "summary", operator |-> "contains", value |-> OneValue("crash")]>>],
   [BaseOptions EXCEPT !.boardId = 1, !.excludeResolved = TRUE],
   [BaseOptions EXCEPT !.boardId = 1]}

Boards == {[projectKey |-> "P"], [projectKey |-> ""]}

QueryResponses == {Response(<<>>, NoTotal, TRUE, "")}

NextQuery ==
  \/ /\ tool = ""
     /\ \E j \in QueryJqls, o \in QueryOptions :
          CallBacklogStats(j, o, NoAllowlist, NoAllowlist)
  \/ \E board \in Boards : BoardResponse(board)
  \/ \E response \in QueryResponses : SearchResponse(response)
  \/ BackendFails

QuerySpec == Init /\ [][NextQuery]_vars

\* ------------------------- jira_get_sprint_issues, jira_get_my_sprint_issues
SprintTools == {"jira_get_sprint_issues", "jira_get_my_sprint_issues"}

\* The cases of the two tools, to the first await of getSprintIssues or of
\* getMySprintIssues (called without the fields argument)
CallSprintIssues(name, sprintId) ==
  /\ tool = ""
  /\ tool' = name
  /\ IF sprintId = 0
     THEN /\ pc' = "failed"
          /\ error' = "sprintId is required"
          /\ UNCHANGED <<inflight, ncalls, sprintIssues>>
     ELSE /\ sprintIssues' = [NoSprintIssues EXCEPT !.sprintId = sprintId]
          /\ pc' = "getIssuesSprint"
          /\ inflight' = Call("getSprint", "")
          /\ ncalls' = ncalls + 1
          /\ UNCHANGED error
  /\ UNCHANGED <<failures, statsLocals, reportLocals, sprintReportDefaults, backend,
                 jiraScopes, boardAllowlist, serverVars>>

\* client.getSprint(sprintId) answers.
IssuesSprintResponse(sprint) ==
  /\ pc = "getIssuesSprint"
  /\ sprintIssues' = [sprintIssues EXCEPT !.sprint = sprint]
  /\ pc' = "getIssuesBoard"
  /\ inflight' = Call("getBoard", "")
  /\ ncalls' = ncalls + 1
  /\ UNCHANGED <<tool, failures, error, statsLocals, reportLocals, sprintReportDefaults,
                 backend, jiraScopes, boardAllowlist, serverVars>>

\* client.getBoard(sprint.originBoardId) answers: the allowlist test.
IssuesBoardResponse(board) ==
  /\ pc = "getIssuesBoard"
  /\ IF ~isBoardAllowed(board.id, board.name, boardAllowlist)
     THEN /\ pc' = "failed"
          /\ inflight' = NoCall
          /\ error' = "Sprint not found: " \o NumberText(sprintIssues.sprintId)
          /\ UNCHANGED ncalls
     ELSE /\ pc' = "searchSprintIssues"
          /\ inflight' = Call("searchIssues", "")
          /\ ncalls' = ncalls + 1
          /\ UNCHANGED error
  /\ UNCHANGED <<tool, failures, statsLocals, reportLocals, sprintReportDefaults,
                 backend, jiraScopes, boardAllowlist, sprintIssues, serverVars>>

\* client.searchIssues answers getSprintIssues, which returns.
SprintIssuesResponse(response) ==
  /\ pc = "searchSprintIssues"
  /\ pc' = "done"
  /\ inflight' = NoCall
  /\ sprintIssues' =
       [sprintIssues EXCEPT
          !.returned = TRUE,
          !.issues = [i \in DOMAIN response.issues |-> response.issues[i].key],
          !.total = IF response.total.given THEN response.total.n
                                            ELSE Len(response.issues)]
  /\ UNCHANGED <<tool, ncalls, failures, error, statsLocals, reportLocals,
                 sprintReportDefaults, backend, jiraScopes, boardAllowlist, serverVars>>

\* ------------------------------------------ ReportSpec: one sprint report
\* The sprints of the backend: sprint 1 "S1" and sprint 2 "S2", each with or
\* without a start date.  Times are days; both sprints started on day 10.
SprintStart == Date(10, "2024-01-10")
SprintName(id) == IF id = 1 THEN <<"S", "1">> ELSE <<"S", "2">>
SprintAnswers(id) == {Sprint(id, SprintName(id), d) : d \in {NoDate, SprintStart}}

\* The issues of project P
IssueD == Issue(<<"P", "-", "2">>, "Open", "Story", "Low", "", "Bob",
                <<"a">>, <<>>, "", Num(5))
IssueE == Issue(<<"P", "-", "3">>, "In Progress", "Bug", "High", "Alice", "Alice",
                <<>>, <<>>, "", Undef)
\* An issue whose status is in none of DEFAULT_STATUS_GROUPS
IssueF == Issue(<<"P", "-", "1", "2">>, "Triage", "Story", "Low", "", "Bob",
                <<"a">>, <<>>, "", Num(2))

\* The data sets of the backend: "empty", a project without issues whose field
\* catalog does not list the story points field; "sprint", a project whose
\* current sprint fills two pages, without inflow candidates; "inflow", a
\* project whose sub-aggregations are empty and whose candidates and change
\* histories are arbitrary; "mixed", the data set "sprint" with one more issue,
\* of project O, on every page.
Backends == {"empty", "sprint", "inflow", "mixed"}

BackendCatalogs ==
  IF backend = "empty" THEN {<<>>}
  ELSE {<<[id |-> "summary", name |-> "Summary"],
          [id |-> StoryPointsField, name |-> "Story Points"]>>}

\* What the data set "sprint" answers to the search of a sub-aggregation
SprintAnswer(ph, token) ==
  CASE ph.kind = "sprintStats" /\ ph.which = "current" /\ token = "" ->
         Response(<<IssueA, IssueD>>, Total(3), FALSE, "t1")
    [] ph.kind = "sprintStats" /\ ph.which = "current" /\ token # "" ->
         Response(<<IssueE>>, Total(3), TRUE, "")
    [] ph.kind = "sprintStats" /\ ph.which = "previous" ->
         Response(<<IssueA>>, Total(1), TRUE, "")
    [] ph.kind = "triage" -> Response(<<IssueE>>, NoTotal, TRUE, "")
    [] ph.kind = "bugBacklog" -> Response(<<IssueE>>, Total(1), TRUE, "")
    [] ph.kind = "bugs" /\ ph.which = "current" ->
         Response(<<IssueA, IssueE>>, Total(2), TRUE, "")
    [] ph.kind = "bugs" /\ ph.which = "previous" ->
         Response(<<IssueA>>, Total(1), TRUE, "")
    [] ph.kind = "label" /\ ph.which = "current" ->
         Response(<<IssueA, IssueD>>, Total(2), TRUE, "")
    [] ph.kind = "label" /\ ph.which = "previous" ->
         Response(<<IssueA, IssueF>>, Total(2), TRUE, "")

\* The same page with the issue O-2 of project O after its issues, and
\* counted in its total
WithIssueOfO(response) ==
  [response EXCEPT !.issues = @ \o <<IssueB>>,
                   !.total = IF @.given THEN Total(@.n + 1) ELSE @]

\* What a data set answers to the search of a sub-aggregation
AnswerOf(b, ph, token) ==
  CASE b = "sprint" -> SprintAnswer(ph, token)
    [] b = "mixed" -> WithIssueOfO(SprintAnswer(ph, token))
    [] OTHER -> Response(<<>>, Total(0), TRUE, "")

\* What the backend answers to the search in flight of a sub-aggregation
ReportAnswer(ph, token) == AnswerOf(backend, ph, token)

\* Inflow candidates, as searchIssues returns them with ['key', storyPointsField]:
\* one with a number of story points, one with a text in that field
CandidateP1 == [key |-> <<"P", "-", "1">>, sp |-> Num(3)]
CandidateP2 == [key |-> <<"P", "-", "2">>, sp |-> Str("2")]

\* Change histories: none or a hundred older entries, then entries of these kinds
Entry(created, items) == [created |-> created, items |-> items]
SprintItem(text) == [field |-> "Sprint", toString |-> text]
StatusItem == [field |-> "status", toString |-> Text(<<"S", "1">>)]
AddedAfter == Entry(15, <<SprintItem(Text(<<"S", "1">>))>>)
AddedAtStart == Entry(10, <<SprintItem(Text(<<"S", "1">>))>>)
AddedToBoth ==
  Entry(15, <<StatusItem, SprintItem(Text(<<"S", "2", ",", " ", "S", "1">>)),
              SprintItem(Text(<<"S", "1">>))>>)
Cleared == Entry(15, <<SprintItem(NoText)>>)
EntryKinds == {AddedAfter, AddedAtStart, AddedToBoth, Cleared}

Histories ==
  {History(padding, tail) : padding \in {0, ChangelogArgument},
                            tail \in SeqsUpTo(EntryKinds, MaxEntries)}

CandidateAnswers ==
  IF backend = "inflow"
  THEN {<<>>, <<CandidateP1>>, <<CandidateP2>>, <<CandidateP2, CandidateP1>>}
  ELSE {<<>>}

ReportArgs ==
  [NoArgs EXCEPT !.sprintId = 1, !.projectKey = "P", !.storyPointsField = StoryPointsField]

CustomStatusGroups ==
  StatusGroups(<<StatusGroup("Done", <<"Done">>),
                 StatusGroup("Open", <<"Open", "In Progress">>)>>)

\* Status groups that share no status, one of which lists a status twice
RepeatedStatusGroups ==
  StatusGroups(<<StatusGroup("Done", <<"Done", "Done">>),
                 StatusGroup("Open", <<"Open", "In Progress">>)>>)

\* The tool calls of the model with the allowlists of the server
ReportCalls ==
  {<<a, NoAllowlist, NoAllowlist>> :
     a \in {[ReportArgs EXCEPT !.sprintId = 0],
            [ReportArgs EXCEPT !.projectKey = ""],
            [ReportArgs EXCEPT !.storyPointsField = ""],
            [ReportArgs EXCEPT !.statusGroups = CustomStatusGroups],
            [ReportArgs EXCEPT !.statusGroups = RepeatedStatusGroups]}
           \cup
           {[ReportArgs EXCEPT !.previousSprintId = p, !.includeTriage = t,
                               !.includeInflow = f] :
              p \in {0, 2}, t \in BOOLEAN, f \in BOOLEAN}
           \cup
           {[ReportArgs EXCEPT !.previousSprintId = p, !.labelsOfInterest = <<"a">>] :
              p \in {0, 2}}}
  \cup {<<ReportArgs, TypeAllowlistBugStory, ProjectAllowlistP>>}

\* The boards of the backend: board 1 "Alpha" and board 2 "Beta"
BoardName(boardId) == IF boardId = 1 THEN "Alpha" ELSE "Beta"
BoardAnswer(boardId) == [id |-> boardId, name |-> BoardName(boardId)]

\* The values of JIRA_ALLOWED_BOARDS: unset, board 2 by its id, board 1 by its
\* name in another case beside a board the backend does not have
BoardsUnset == NoEnv
BoardTwoById == Env(<<"2">>)
BoardOneByName == Env(<<Blank, "ALPHA", Blank, "|", "3">>)

\* What the backend answers to the search of getSprintIssues
SprintIssuesAnswers ==
  {Response(<<>>, Total(0), TRUE, ""), Response(<<IssueA, IssueD>>, NoTotal, TRUE, "")}

\* The environments of the model: the defaults of the sprint report, the data
\* set of the backend, and JIRA_ALLOWED_BOARDS
Environments ==
  {<<NoDefaults, b, BoardsUnset>> : b \in Backends}
  \cup {<<[NoDefaults EXCEPT !.storyPointsField = StoryPointsField], "empty", BoardsUnset>>}
  \cup {<<NoDefaults, "sprint", BoardTwoById>>, <<NoDefaults, "empty", BoardOneByName>>}

InitReport ==
  \E e \in Environments :
    /\ tool = ""
    /\ pc = "idle"
    /\ inflight = NoCall
    /\ ncalls = 0
    /\ failures = 0
    /\ error = ""
    /\ jql = <<>>
    /\ options = BaseOptions
    /\ projectAllowlist = NoAllowlist
    /\ issueTypeAllowlist = NoAllowlist
    /\ filters = <<>>
    /\ finalJql = <<>>
    /\ resolvedValueFieldName = ""
    /\ acc = EmptyAcc
    /\ totalFromJira = 0
    /\ pageCount = 0
    /\ nextPageToken = ""
    /\ requests = 0
    /\ fetched = 0
    /\ returnedIssues = EmptyBag
    /\ lastResponse = NoResponse
    /\ result = NoResult
    /\ args = NoArgs
    /\ reportOptions = NoArgs
    /\ reportAllowlists =
         [issueTypeAllowlist |-> NoAllowlist, projectAllowlist |-> NoAllowlist]
    /\ currentSprint = NoSprint
    /\ previousSprint = NoSprint
    /\ storyPointsFieldName = ""
    /\ phase = 0
    /\ subResults = EmptyMap
    /\ inflowMetrics = EmptyMap
    /\ candidateIssues = <<>>
    /\ candidate = 0
    /\ inflowIssues = 0
    /\ inflowPoints = 0
    /\ checked = NoCheck
    /\ report = NoReport
    /\ sprintReportDefaults = e[1]
    /\ backend = e[2]
    /\ jiraScopes = NoEnv
    /\ boardAllowlist = parseAllowlist(e[3])
    /\ sprintIssues = NoSprintIssues
    /\ allowedTools = parseScopes(NoEnv)
    /\ toolList = NoToolList
    /\ toolAnswer = NoToolAnswer

NextReport ==
  \/ /\ tool = ""
     /\ \E c \in ReportCalls : CallSprintReport(c[1], c[2], c[3])
  \/ \E sprint \in SprintAnswers(reportOptions.sprintId) : SprintResponse(sprint)
  \/ \E sprint \in SprintAnswers(reportOptions.previousSprintId) :
       PreviousSprintResponse(sprint)
  \/ \E catalog \in BackendCatalogs : ReportFieldsResponse(catalog)
  \/ \E catalog \in BackendCatalogs : FieldsResponse(catalog)
  \/ /\ pc = "search"
     /\ SearchResponse(ReportAnswer(ThePlan[phase], inflight.token))
  \/ /\ pc = "searchCandidates"
     /\ \E issues \in CandidateAnswers : CandidatesResponse(issues)
  \/ /\ pc = "getIssueChangelog"
     /\ \E history \in Histories : ChangelogResponse(history)
  \/ /\ tool = ""
     /\ \E name \in SprintTools, sprintId \in 0..2 : CallSprintIssues(name, sprintId)
  \/ \E sprint \in SprintAnswers(sprintIssues.sprintId) : IssuesSprintResponse(sprint)
  \/ IssuesBoardResponse(BoardAnswer(sprintIssues.sprint.originBoardId))
  \/ \E response \in SprintIssuesAnswers : SprintIssuesResponse(response)
  \/ BackendFails

ReportSpec == InitReport /\ [][NextReport]_vars

\* No tool call has been made: the variables of the handlers as Init has them
ServerIdle ==
  /\ tool = ""
  /\ pc = "idle"
  /\ inflight = NoCall
  /\ ncalls = 0
  /\ failures = 0
  /\ error = ""
  /\ jql = <<>>
  /\ options = BaseOptions
  /\ projectAllowlist = NoAllowlist
  /\ issueTypeAllowlist = NoAllowlist
  /\ filters = <<>>
  /\ finalJql = <<>>
  /\ resolvedValueFieldName = ""
  /\ acc = EmptyAcc
  /\ totalFromJira = 0
  /\ pageCount = 0
  /\ nextPageToken = ""
  /\ requests = 0
  /\ fetched = 0
  /\ returnedIssues = EmptyBag
  /\ lastResponse = NoResponse
  /\ result = NoResult
  /\ args = NoArgs
  /\ reportOptions = NoArgs
  /\ reportAllowlists = [issueTypeAllowlist |-> NoAllowlist, projectAllowlist |-> NoAllowlist]
  /\ currentSprint = NoSprint
  /\ previousSprint = NoSprint
  /\ storyPointsFieldName = ""
  /\ phase = 0
  /\ subResults = EmptyMap
  /\ inflowMetrics = EmptyMap
  /\ candidateIssues = <<>>
  /\ candidate = 0
  /\ inflowIssues = 0
  /\ inflowPoints = 0
  /\ checked = NoCheck
  /\ report = NoReport

\* ----------------------------------------- ScopeSpec: the permission scopes
\* The ListTools handler
ListTools ==
  /\ ~allowedTools.threw
  /\ toolList' = [given |-> TRUE,
                  tools |-> {t \in allTools : isToolAllowed(t, allowedTools.tools)}]
  /\ UNCHANGED <<callVars, statsLocals, reportLocals, toolEnv, allowedTools, toolAnswer>>

\* catch (error): { content: [{ type: 'text', text: `Error: ${message}` }], isError: true }
ThrownAnswer(name, message) ==
  [given |-> TRUE, name |-> name, isError |-> TRUE, text |-> <<"Error: ", message>>]

\* The CallTool handler up to the case of the tool: the scope check, then the
\* switch.  The bodies of the cases of jira_get_backlog_stats and of
\* jira_get_sprint_report are CallBacklogStats and CallSprintReport.
CallTool(name) ==
  /\ ~allowedTools.threw
  /\ tool = ""
  /\ IF ~isToolAllowed(name, allowedTools.tools)
     THEN /\ toolAnswer' = UnknownToolAnswer(name)
          /\ UNCHANGED callVars
     ELSE IF name \in ToolCases
     THEN /\ tool' = name
          /\ pc' = "handler"
          /\ toolAnswer' = NoToolAnswer
          /\ UNCHANGED <<inflight, ncalls, failures, error>>
     ELSE /\ toolAnswer' = ThrownAnswer(name, Cat(<<"Unknown tool: ", name>>))
          /\ UNCHANGED callVars
  /\ UNCHANGED <<statsLocals, reportLocals, toolEnv, allowedTools, toolList>>

\* The case of a tool runs: it throws on a missing argument, or it calls the
\* backend.
HandlerRuns(argumentsOk) ==
  /\ pc = "handler"
  /\ IF argumentsOk
     THEN /\ pc' = "done"
          /\ ncalls' = ncalls + 1
          /\ UNCHANGED <<error, toolAnswer>>
     ELSE /\ pc' = "failed"
          /\ error' = "argument is required"
          /\ toolAnswer' = ThrownAnswer(tool, "argument is required")
          /\ UNCHANGED ncalls
  /\ UNCHANGED <<tool, inflight, failures, statsLocals, reportLocals, toolEnv,
                 allowedTools, toolList>>

\* The values of JIRA_SCOPES: unset, or a text of up to MaxScopeLen chunks
ScopeChunks == {",", Blank, "issues:read", "boards:read", "nope:read", "constructor"}
ScopeValues == {NoEnv} \cup {Env(text) : text \in SeqsUpTo(ScopeChunks, MaxScopeLen)}

\* The names a client may call: every registered tool, and a name no tool has
CalledNames == allTools \cup {"jira_no_such_tool"}

InitScopes ==
  \E e \in ScopeValues :
    /\ ServerIdle
    /\ sprintReportDefaults = NoDefaults
    /\ backend = "empty"
    /\ jiraScopes = e
    /\ boardAllowlist = NoBoardAllowlist
    /\ sprintIssues = NoSprintIssues
    /\ allowedTools = parseScopes(e)
    /\ toolList = NoToolList
    /\ toolAnswer = NoToolAnswer

NextScopes ==
  \/ ListTools
  \/ \E name \in CalledNames : CallTool(name)
  \/ \E argumentsOk \in BOOLEAN : HandlerRuns(argumentsOk)

ScopeSpec == InitScopes /\ [][NextScopes]_vars

\* ------------------------------------------------ PivotSpec: custom pivots
\* Three issues of one project: by assignee and status their story points are
\* (Alice, Done, 3), (Alice, Open, 2) and (Bob, Done, 5).  The second carries no
\* label, no component, no resolution; the first no priority; the third lists
\* one label twice.
AliceDone == Issue(<<"P", "-", "1">>, "Done", "Story", "", "Alice", "Bob",
                   <<"a", "b">>, <<"ui">>, "Fixed", Num(3))
AliceOpen == Issue(<<"P", "-", "2">>, "Open", "Bug", "High", "Alice", "Alice",
                   <<>>, <<>>, "", Num(2))
BobDone == Issue(<<"P", "-", "3">>, "Done", "Bug", "Low", "Bob", "Bob",
                 <<"a", "a">>, <<"ui", "api">>, "Fixed", Num(5))
PivotIssues == {AliceDone, AliceOpen, BobDone}

PivotPairs ==
  {<<"assignee", "status">>, <<"labels", "status">>, <<"labels", "components">>,
   <<"priority", "resolution">>}

PivotOptions ==
  {[BaseOptions EXCEPT !.pivot = Pivot(rc[1], rc[2], a, ValueFieldFor(a))] :
     rc \in PivotPairs, a \in Actions}

PivotResponses(room) ==
  {Response(issues, NoTotal, isLast, token) :
     issues \in SeqsUpTo(PivotIssues, room),
     isLast \in BOOLEAN,
     token \in {"", "t1"}}

NextPivot ==
  \/ /\ tool = ""
     /\ \E o \in PivotOptions : CallBacklogStats(StatsJql, o, NoAllowlist, NoAllowlist)
  \/ \E catalog \in FieldCatalogs : FieldsResponse(catalog)
  \/ /\ pc = "search"
     /\ \E response \in PivotResponses(MaxIssues - fetched) : SearchResponse(response)
  \/ BackendFails

PivotSpec == Init /\ [][NextPivot]_vars

\* ------------------------------------------------------------------ claims
Returned == pc = "done" /\ result.given

\* C1: a pivot with action count over two single-valued dimensions has
\* grand = analyzed, and its row totals and its column totals each sum to grand.
C1_PivotCountCase ==
  /\ Returned
  /\ options.pivot.given
  /\ OrElse(options.pivot.action, "count") = "count"
  /\ options.pivot.rowField \in SingleValuedFields
  /\ options.pivot.columnField \in SingleValuedFields

C1_PivotCountTotals ==
  C1_PivotCountCase =>
    /\ result.pivot.totals.grand = result.analyzed
    /\ SumMap(result.pivot.totals.rows) = result.pivot.totals.grand
    /\ SumMap(result.pivot.totals.columns) = result.pivot.totals.grand

\* Two pages were aggregated into a table of several rows and columns.
C1_Witness ==
  /\ C1_PivotCountCase
  /\ pageCount >= 2
  /\ result.analyzed >= 3
  /\ Cardinality(result.pivot.rows) >= 2
  /\ Cardinality(result.pivot.columns) >= 2

\* C2: every result has analyzed <= total.
C2_AnalyzedAtMostTotal == Returned => result.analyzed <= result.total

\* C3: analyzed never exceeds 4000.
C3_AnalyzedAtMostCap == Returned => result.analyzed <= MaxPages * PageSize

\* C4: one run sends at most 40 search requests, and it ends.
C4_BoundedAndTerminates ==
  /\ [](requests <= MaxPages)
  /\ [](pc = "search" => <>(pc \in {"done", "failed"}))

\* The run that was cut by the ceiling: 40 requests, the backend still
\* announcing a next page.
C4_Witness ==
  /\ Returned
  /\ requests = MaxPages
  /\ pageCount = MaxPages
  /\ nextPageToken # ""

\* C10: without groupBy each of byStatus, byType, byPriority and byAssignee sums
\* to analyzed, and each row of byTypeAndStatus sums to that type's byType count.
C10_DefaultCase == Returned /\ ~options.groupBy.given

C10_DefaultAggregation ==
  C10_DefaultCase =>
    /\ result.hasDefault
    /\ SumMap(result.byStatus) = result.analyzed
    /\ SumMap(result.byType) = result.analyzed
    /\ SumMap(result.byPriority) = result.analyzed
    /\ SumMap(result.byAssignee) = result.analyzed
    /\ DOMAIN result.byTypeAndStatus = DOMAIN result.byType
    /\ \A t \in DOMAIN result.byType :
         SumMap(result.byTypeAndStatus[t]) = result.byType[t]

\* The example: (Bug, Done), (Bug, Done), (Story, Open).
C10_Witness ==
  /\ C10_DefaultCase
  /\ result.analyzed = 3
  /\ result.byType = ("Bug" :> 2) @@ ("Story" :> 1)
  /\ result.byStatus = ("Done" :> 2) @@ ("Open" :> 1)
  /\ result.byTypeAndStatus = ("Bug" :> ("Done" :> 2)) @@ ("Story" :> ("Open" :> 1))

\* C9: for a base query ending in an ORDER BY clause the composed query is the
\* base without the clause, then the filter fragments joined by " AND ", then
\* the clause; it does not start with AND when the base is empty; and the
\* example composes to the quoted text.
QueryComposed == pc \in {"getFields", "search", "done"}

\* The places of q where the keyword ORDER BY starts (as a word of its own)
OrderByStarts(q) ==
  {p \in 1..Len(q) : AfterOrderBy(q, p) # 0 /\ (p = 1 \/ IsSpace(q[p - 1]))}

\* q with every run of white space reduced to one blank, none at either end:
\* two JQL texts that differ in white space only are the same query.
RECURSIVE Squeeze(_)
Squeeze(q) ==
  IF q = <<>> THEN <<>>
  ELSE IF IsSpace(Head(q))
  THEN <<Blank>> \o Squeeze(TrimLeft(q))
  ELSE <<Head(q)>> \o Squeeze(Tail(q))
SameQuery(a, b) == Squeeze(Trim(a)) = Squeeze(Trim(b))

C9_Expected(q, fs) ==
  LET p == CHOOSE x \in OrderByStarts(q) : TRUE
      base == Trim(SubSeq(q, 1, p - 1))
      clause == SubSeq(q, p, Len(q))
  IN (IF fs = <<>> THEN base
      ELSE IF base = <<>> THEN <<Join(fs, " AND ")>>
      ELSE base \o <<" AND " \o Join(fs, " AND ")>>)
     \o <<Blank>> \o clause

C9_OrderByHeldLast ==
  /\ (QueryComposed /\ Cardinality(OrderByStarts(jql)) = 1)
       => /\ SameQuery(finalJql, C9_Expected(jql, filters))
          /\ finalJql[1] # " AND " \o Join(filters, " AND ")
  /\ (QueryComposed /\ jql = ExampleJql /\ filters = <<"resolution IS EMPTY">>)
       => Cat(finalJql) = "project = X AND resolution IS EMPTY ORDER BY created DESC"

\* --------------------------------------------------- claims on the report
Reporting == tool = "jira_get_sprint_report"

\* The story points of the candidates, each taken once
CandidatePoints ==
  SumSeq([i \in DOMAIN candidateIssues |-> NumberOrZero(candidateIssues[i].sp)])

\* C5: the inflow scan counts each candidate at most once, whatever its change
\* history holds: the scan of one history adds at most one issue, the inflow
\* issue count never exceeds the number of candidates, and the inflow points
\* never exceed the candidates' points.
C5_CountedAtMostOnce ==
  Reporting =>
    /\ checked.counted <= 1
    /\ inflowIssues <= Len(candidateIssues)
    /\ inflowPoints <= CandidatePoints

\* C6: a candidate whose change history holds, among its first entries, an
\* entry after the sprint start that changes Sprint to a text containing the
\* sprint's name, is counted as inflow.
C6_FirstEntriesCounted ==
  (Reporting /\ checked.given /\ checked.amongFirst) => checked.counted >= 1

\* C7: once a backend call of a sprint report has failed, the call has ended
\* with that error and without a report, the failure is the only one, and no
\* backend call is issued any more.
C7_FailureFailsReport ==
  /\ []((Reporting /\ failures > 0) =>
          /\ failures = 1
          /\ pc = "failed"
          /\ error = "JIRA API error"
          /\ inflight = NoCall
          /\ ~report.given)
  /\ [][(Reporting /\ failures > 0) => (ncalls' = ncalls /\ ~report'.given)]_vars

\* A change history fetch or candidate search failed after two
\* sub-aggregations had returned and the first history had been scanned.
C7_Witness ==
  /\ Reporting
  /\ failures = 1
  /\ pc = "failed"
  /\ {1, 2} \subseteq DOMAIN subResults
  /\ ThePlan[phase].kind = "inflow"
  /\ candidate = 2
  /\ checked.given
  /\ ncalls >= 9

\* C8: a sprint report request without sprintId, without projectKey, or with
\* no story points field in its arguments and none in the defaults, ends with
\* an error, no backend call having been issued.
C8_MissingInput ==
  \/ args.sprintId = 0
  \/ args.projectKey = ""
  \/ args.storyPointsField = "" /\ sprintReportDefaults.storyPointsField = ""

C8_RejectedBeforeBackend ==
  (Reporting /\ C8_MissingInput) =>
    /\ pc = "failed"
    /\ error # ""
    /\ ncalls = 0
    /\ inflight = NoCall
    /\ ~report.given

\* The request that has sprintId and projectKey but no story points field,
\* the server having no default.
C8_Witness ==
  /\ Reporting
  /\ args.sprintId = 1
  /\ args.projectKey = "P"
  /\ args.storyPointsField = ""
  /\ sprintReportDefaults.storyPointsField = ""
  /\ pc = "failed"
  /\ error = "storyPointsField is required"
  /\ ncalls = 0

\* -------------------------------------------------- claims on custom pivots
\* The cells of the returned table, by row and by column
RowCells(r) == result.pivot.data[r]
ColumnCells(c) == [r \in result.pivot.rows |-> result.pivot.data[r][c]]

\* C11: in a pivot with action sum over a numeric value field each row total is
\* the sum of the row's cells, each column total the sum of the column's cells,
\* and the grand total the sum of all cells.
C11_PivotSumCase ==
  /\ Returned
  /\ options.pivot.given
  /\ options.pivot.action = "sum"
  /\ options.pivot.valueField = StoryPointsField

PivotCells == {rc \in PivotRowKeys(acc) \X PivotColumnKeys(acc) :
                 rc[2] \in DOMAIN acc.pivotData[rc[1]]}

\* C13: in every pivot cell the number of distinct issue keys (the cell's value
\* under cardinality) is at most the number of contributions (its value under
\* count), also when an issue is returned on two pages or lists a label twice.
C13_CardinalityAtMostCount ==
  options.pivot.given =>
    /\ \A rc \in PivotCells :
         Cardinality(acc.pivotData[rc[1]][rc[2]].values) <= acc.pivotData[rc[1]][rc[2]].count
    /\ (Returned /\ options.pivot.action = "cardinality") =>
         \A rc \in PivotCells :
           result.pivot.data[rc[1]][rc[2]] <= acc.pivotData[rc[1]][rc[2]].count

\* A returned cardinality table by labels and status, after two pages that both
\* held the issue listing label a twice: the cell (a, Done) has one key, four
\* contributions.
C13_Witness ==
  /\ Returned
  /\ options.pivot.action = "cardinality"
  /\ options.pivot.rowField = "labels"
  /\ options.pivot.columnField = "status"
  /\ pageCount = 2
  /\ returnedIssues = (BobDone :> 2)
  /\ result.pivot.data["a"]["Done"] = 1
  /\ acc.pivotData["a"]["Done"].count = 4

\* C14: every result carries exactly one of the two groupings: the default
\* aggregations when no groupBy was supplied, groupedBy when one was supplied,
\* an empty list included.
C14_ExactlyOneGrouping ==
  Returned =>
    /\ result.hasDefault = ~options.groupBy.given
    /\ result.hasGroupedBy = options.groupBy.given

\* The distinct issue keys over all cells
KeysInCells == UNION {acc.pivotData[rc[1]][rc[2]].values : rc \in PivotCells}

\* C18: under action cardinality the grand total is the number of distinct
\* issue keys in the union of all cells, also when some issue contributes to
\* no cell.
C18_CardinalityGrand ==
  (Returned /\ options.pivot.given /\ options.pivot.action = "cardinality") =>
    result.pivot.totals.grand = Cardinality(KeysInCells)

\* The issue carries no label (no component) where the field is labels
\* (components)
CarriesNone(issue, field) ==
  \/ field = "labels" /\ issue.labels = <<>>
  \/ field = "components" /\ issue.components = <<>>

\* The aggregation after one more issue
AfterIssue(issue) ==
  AggregateIssue(acc, issue, options, projectAllowlist, issueTypeAllowlist)

PivotPart(a) == <<a.pivotData, a.pivotRowTotals, a.pivotColTotals, a.pivotGrandTotal>>

\* C19: an analyzed issue without a value for the row or the column dimension
\* leaves every cell, row total, column total and the running grand total as
\* they were and adds no row or column; an issue without priority or
\* resolution is counted under 'None' or 'Unresolved'.
C19_PivotCase == options.pivot.given /\ pc \in {"search", "done"}

C19_NoValueNoCell ==
  C19_PivotCase =>
    /\ \A i \in PivotIssues :
         (CarriesNone(i, options.pivot.rowField)
            \/ CarriesNone(i, options.pivot.columnField)) =>
           /\ AfterIssue(i).analyzed = acc.analyzed + 1
           /\ PivotPart(AfterIssue(i)) = PivotPart(acc)
    /\ \A i \in PivotIssues :
         (options.pivot.rowField = "priority" /\ i.priority = "") =>
           /\ "None" \in DOMAIN AfterIssue(i).pivotData
           /\ AfterIssue(i).pivotRowTotals["None"].count =
                (IF "None" \in DOMAIN acc.pivotRowTotals
                 THEN acc.pivotRowTotals["None"].count ELSE 0) + 1
    /\ \A i \in PivotIssues :
         (options.pivot.columnField = "resolution" /\ i.resolution = "") =>
           /\ "Unresolved" \in DOMAIN AfterIssue(i).pivotColTotals
           /\ AfterIssue(i).pivotColTotals["Unresolved"].count =
                (IF "Unresolved" \in DOMAIN acc.pivotColTotals
                 THEN acc.pivotColTotals["Unresolved"].count ELSE 0) + 1
    /\ PivotRowKeys(acc) \subseteq
         UNION {Range(FieldValueArray(i, options.pivot.rowField)) :
                  i \in DOMAIN returnedIssues}
    /\ PivotColumnKeys(acc) \subseteq
         UNION {Range(FieldValueArray(i, options.pivot.columnField)) :
                  i \in DOMAIN returnedIssues}

\* By labels and status, the issue without labels and the issue with labels a
\* and b were analyzed: rows a and b alone, two contributions in all.
C19_Witness ==
  /\ Returned
  /\ options.pivot.rowField = "labels"
  /\ options.pivot.columnField = "status"
  /\ returnedIssues = (AliceOpen :> 1) @@ (AliceDone :> 1)
  /\ result.analyzed = 2
  /\ result.pivot.rows = {"a", "b"}
  /\ result.pivot.columns = {"Done"}
  /\ acc.pivotGrandTotal.count = 2

\* By priority and resolution, the issue without resolution and the issue
\* without priority were analyzed: cells (High, Unresolved) and (None, Fixed).
SentinelsCounted ==
  /\ Returned
  /\ options.pivot.rowField = "priority"
  /\ options.pivot.columnField = "resolution"
  /\ returnedIssues = (AliceOpen :> 1) @@ (AliceDone :> 1)
  /\ acc.pivotData["High"]["Unresolved"].count = 1
  /\ acc.pivotData["None"]["Fixed"].count = 1

\* C28: for the action cardinality no row total and no column total of the
\* returned table exceeds its grand total.
C28_CardinalityTotalsBounded ==
  (Returned /\ options.pivot.given /\ options.pivot.action = "cardinality") =>
    /\ \A r \in result.pivot.rows :
         result.pivot.totals.rows[r] <= result.pivot.totals.grand
    /\ \A c \in result.pivot.columns :
         result.pivot.totals.columns[c] <= result.pivot.totals.grand

\* By labels and components one issue with the components ui and api was
\* analyzed: the total of row a is 2, the grand total 1.
RowOverGrand ==
  /\ Returned
  /\ options.pivot.rowField = "labels"
  /\ options.pivot.columnField = "components"
  /\ options.pivot.action = "cardinality"
  /\ returnedIssues = (BobDone :> 1)
  /\ result.pivot.totals.rows["a"] = 2
  /\ result.pivot.totals.columns = ("ui" :> 1) @@ ("api" :> 1)
  /\ result.pivot.totals.grand = 1

\* --------------------------------------------- claims on the analyzed issues
\* The issues the run has analyzed: the returned ones that pass both allowlists
AnalyzedIssues ==
  {i \in DOMAIN returnedIssues : IssuePasses(i, projectAllowlist, issueTypeAllowlist)}

\* How many times the value array of a field holds a value
Occurrences(valueArray, v) == Cardinality({k \in DOMAIN valueArray : valueArray[k] = v})

\* The memberships of a value over the analyzed issues, an issue returned twice
\* counted twice
Memberships(field, v) ==
  SumMap([i \in AnalyzedIssues |->
            returnedIssues[i] * Occurrences(FieldValueArray(i, field), v)])

MemberValues(field) ==
  UNION {Range(FieldValueArray(i, field)) : i \in AnalyzedIssues}

\* C12: under groupBy with labels or components every analyzed issue adds one to
\* the bucket of each member of its value array and to no other bucket: a bucket
\* holds the memberships of its value, the buckets sum to the memberships in
\* all, and an issue without labels adds to none.
C12_MultiValuedCase ==
  /\ Returned
  /\ options.groupBy.given
  /\ Range(options.groupBy.fields) \cap MultiValuedFields # {}

C12_OncePerMember ==
  C12_MultiValuedCase =>
    \A f \in Range(options.groupBy.fields) \cap MultiValuedFields :
      /\ DOMAIN result.groupedBy[f] = MemberValues(f)
      /\ \A v \in MemberValues(f) : result.groupedBy[f][v] = Memberships(f, v)
      /\ SumMap(result.groupedBy[f]) =
           SumMap([i \in AnalyzedIssues |->
                     returnedIssues[i] * Len(FieldValueArray(i, f))])

\* Two issues with labels a and b and one without labels were analyzed: the
\* buckets sum to 4, not to 3.
C12_Witness ==
  /\ C12_MultiValuedCase
  /\ result.analyzed = 3
  /\ \E i \in AnalyzedIssues : i.labels = <<>>
  /\ result.groupedBy["labels"] = ("a" :> 2) @@ ("b" :> 2)

\* The project of the key is in the project allowlist and the type of the issue
\* in the issue type allowlist, where these are configured
PassesBoth(issue) ==
  /\ projectAllowlist.on =>
       ToUpperCase(getProjectFromIssueKey(issue.key)) \in projectAllowlist.set
  /\ issueTypeAllowlist.on =>
       ToLowerCase(issue.issuetype) \in issueTypeAllowlist.set

AllowedIssues == {i \in DOMAIN returnedIssues : PassesBoth(i)}

\* The memberships of a value over the returned issues that pass both
AllowedMemberships(field, v) ==
  SumMap([i \in AllowedIssues |->
            returnedIssues[i] * Occurrences(FieldValueArray(i, field), v)])

AllowedValues(field) ==
  UNION {Range(FieldValueArray(i, field)) : i \in AllowedIssues}

\* A map of counts holds the memberships of the allowed issues and no more
CountsAllowedAlone(counts, field) ==
  /\ DOMAIN counts = AllowedValues(field)
  /\ \A v \in DOMAIN counts : counts[v] = AllowedMemberships(field, v)

\* C20: a returned issue whose project or whose issue type is not allowed
\* contributes to nothing: applied to the aggregation it leaves it as it was,
\* and analyzed, the default aggregations, groupedBy and the pivot hold the
\* returned issues that pass both predicates and no other.
C20_AllowlistCase == pc \in {"search", "done"}

C20_DisallowedContributesNothing ==
  C20_AllowlistCase =>
    /\ \A i \in Issues :
         ~PassesBoth(i) =>
           AggregateIssue(acc, i, options, projectAllowlist, issueTypeAllowlist) = acc
    /\ acc.analyzed = SumMap([i \in AllowedIssues |-> returnedIssues[i]])
    /\ ~options.groupBy.given =>
         /\ CountsAllowedAlone(acc.byStatus, "status")
         /\ CountsAllowedAlone(acc.byType, "type")
         /\ CountsAllowedAlone(acc.byPriority, "priority")
         /\ CountsAllowedAlone(acc.byAssignee, "assignee")
         /\ DOMAIN acc.byTypeAndStatus = AllowedValues("type")
         /\ \A t \in DOMAIN acc.byTypeAndStatus :
              SumMap(acc.byTypeAndStatus[t]) = AllowedMemberships("type", t)
    /\ options.groupBy.given =>
         \A f \in Range(options.groupBy.fields) :
           CountsAllowedAlone(acc.groupedBy[f], f)
    /\ options.pivot.given =>
         /\ PivotRowKeys(acc) \subseteq AllowedValues(options.pivot.rowField)
         /\ PivotColumnKeys(acc) \subseteq AllowedValues(options.pivot.columnField)
         /\ acc.pivotGrandTotal.count =
              SumMap([i \in AllowedIssues |->
                        returnedIssues[i]
                          * Len(FieldValueArray(i, options.pivot.rowField))
                          * Len(FieldValueArray(i, options.pivot.columnField))])
    /\ ~options.pivot.given => PivotRowKeys(acc) = {}

\* With both allowlists configured the backend returned an allowed issue, one
\* of another project and one of another type: one issue was analyzed.
C20_Witness ==
  /\ Returned
  /\ projectAllowlist.on
  /\ issueTypeAllowlist.on
  /\ DOMAIN returnedIssues = {IssueA, IssueB, IssueC}
  /\ ~PassesBoth(IssueB)
  /\ ~PassesBoth(IssueC)
  /\ result.analyzed = 1
  /\ ~options.groupBy.given
  /\ result.byStatus = ("Done" :> 1)

\* ------------------------------------------------ claims on the tool scopes
\* The text of an answer
AnswerText(answer) == Cat(answer.text)
UnknownToolText(name) == Cat(<<"Error: Unknown tool: ", name>>)

\* C15: with JIRA_SCOPES not set, empty or of white space only, every tool the
\* server registers is in the tool list, and a call of it is not answered with
\* 'Unknown tool'.
C15_AllToolsEnabled ==
  EnvIsEmpty(jiraScopes) =>
    /\ toolList.given => toolList.tools = allTools
    /\ (toolAnswer.given /\ toolAnswer.name \in allTools) =>
         AnswerText(toolAnswer) # UnknownToolText(toolAnswer.name)

\* The table of scopes of the README
DocumentedScopes ==
  [s \in DOMAIN SCOPES |->
     IF s = "issues:read"
     THEN SCOPES[s] \cup {"jira_get_backlog_stats", "jira_get_field_schema",
                          "jira_debug_search"}
     ELSE SCOPES[s]]

\* The tools of the scopes that JIRA_SCOPES names
GrantedTools ==
  UNION {DocumentedScopes[s] :
           s \in RequestedScopes(jiraScopes.text) \cap DOMAIN DocumentedScopes}

\* C16: under a configured JIRA_SCOPES a tool outside the granted scopes is not
\* in the tool list, a call of it is answered 'Error: Unknown tool: <name>' as
\* the call of a name no tool has, its case is not entered and the backend is
\* not called; a scope name that is not valid grants nothing.
C16_ScopesConfigured == ~EnvIsEmpty(jiraScopes) /\ ~allowedTools.threw

C16_HiddenOutsideScopes ==
  C16_ScopesConfigured =>
    /\ toolList.given => toolList.tools \subseteq GrantedTools
    /\ (toolAnswer.given /\ toolAnswer.name \notin GrantedTools) =>
         /\ toolAnswer = UnknownToolAnswer(toolAnswer.name)
         /\ AnswerText(toolAnswer) = UnknownToolText(toolAnswer.name)
         /\ AnswerText(toolAnswer) =
              AnswerText(ThrownAnswer(toolAnswer.name,
                                      Cat(<<"Unknown tool: ", toolAnswer.name>>)))
    /\ tool # "" => tool \in GrantedTools
    /\ ncalls > 0 => tool \in GrantedTools

\* JIRA_SCOPES = "issues:read,nope:read": the list holds the four tools of
\* issues:read, and the call of jira_list_boards was answered as unknown
\* without a backend call.
C16_Witness ==
  /\ C16_ScopesConfigured
  /\ jiraScopes = Env(<<"issues:read", ",", "nope:read">>)
  /\ toolList.given
  /\ toolList.tools = SCOPES["issues:read"]
  /\ toolAnswer = UnknownToolAnswer("jira_list_boards")
  /\ tool = ""
  /\ ncalls = 0

\* ---------------------------------------------- claims on the board allowlist
\* The board of a sprint of the backend is allowed
SprintAllowed(sprintId) ==
  isBoardAllowed(OriginBoardId(sprintId), BoardName(OriginBoardId(sprintId)),
                 boardAllowlist)

\* C17: with JIRA_ALLOWED_BOARDS configured no operation taking a sprint id
\* returns data of a sprint whose origin board is not allowed: getSprintIssues,
\* getMySprintIssues and getSprintReport fail for such a sprint.
C17_NoDataOfHiddenSprint ==
  boardAllowlist.on =>
    /\ (tool \in SprintTools /\ sprintIssues.returned) =>
         SprintAllowed(sprintIssues.sprintId)
    /\ (Reporting /\ report.given) =>
         /\ SprintAllowed(reportOptions.sprintId)
         /\ reportOptions.previousSprintId # 0 =>
              SprintAllowed(reportOptions.previousSprintId)

\* The part of C17 on getSprintIssues and getMySprintIssues alone
SprintIssuesGuarded ==
  (boardAllowlist.on /\ tool \in SprintTools /\ sprintIssues.returned) =>
    SprintAllowed(sprintIssues.sprintId)

\* ------------------------------------------------------ claims on the paging
\* The response asks for no further page: it is empty, or has isLast, or has no
\* continuation token
Stops(response) ==
  response.empty \/ response.isLast \/ response.nextPageToken = ""

\* A step that issues a search request of the run
IssuesSearch == pc' = "search" /\ requests' # requests

\* C21: the first search request of a run carries no continuation token, every
\* later one the token of the response just before it; after a response that
\* is empty, or has isLast, or has no token, the run issues no search request.
C21_TokenStep ==
  /\ IssuesSearch =>
       /\ requests' = requests + 1
       /\ requests' = 1 => ~lastResponse'.given /\ inflight'.token = ""
       /\ requests' > 1 =>
            /\ lastResponse'.given
            /\ ~Stops(lastResponse')
            /\ inflight'.token = lastResponse'.nextPageToken
  /\ (lastResponse.given /\ Stops(lastResponse)) => ~IssuesSearch

C21_TokensChained == [][C21_TokenStep]_vars

\* The third request of a run carries the token t2 of the second response
C21_Witness ==
  /\ tool = "jira_get_backlog_stats"
  /\ pc = "search"
  /\ requests = 3
  /\ lastResponse.given
  /\ ~Stops(lastResponse)
  /\ lastResponse.nextPageToken = "t2"
  /\ inflight.token = "t2"

\* The run has returned after a response that announced a further page it did
\* not ask for: the response was empty
StoppedOnEmptyPage ==
  /\ pc = "done"
  /\ lastResponse.given /\ lastResponse.empty
  /\ ~lastResponse.isLast /\ lastResponse.nextPageToken = "t2"
  /\ requests = 2

\* C22: the total the first response reported is the total of the run: the
\* step that receives the second response leaves it as it was, and a result
\* returned by that step reports it.
C22_SecondResponseStep ==
  (tool = "jira_get_backlog_stats" /\ pc = "search" /\ requests = 2
     /\ totalFromJira # 0) =>
    /\ totalFromJira' = totalFromJira
    /\ result'.given => result'.total = totalFromJira

C22_TotalOfFirstPage == [][C22_SecondResponseStep]_vars

\* ----------------------------------------- claims on the report's sections
\* getSprintReport has returned its report
Reported == Reporting /\ pc = "done" /\ report.given

\* What the sub-aggregation of a step of the plan returned
StatsOf(kind, which, label) == ResultOf(ThePlan, subResults, Phase(kind, which, label))

\* The sprints the report covers
ReportedSprints ==
  IF reportOptions.previousSprintId # 0 THEN {"current", "previous"} ELSE {"current"}

MetricsOf(row, which) == IF which = "current" THEN row.current ELSE row.previous

\* C23: for each sprint of the report the bugs fixed and the bugs not fixed are
\* as many as the bugs its bug aggregation analyzed.
C23_BugsPartitioned ==
  Reported =>
    \A which \in ReportedSprints :
      MetricsOf(report.bugs.fixedInSprint, which).issues
        + MetricsOf(report.bugs.notFixedInSprint, which).issues
      = StatsOf("bugs", which, "").analyzed

\* The bug aggregation of the current sprint analyzed two bugs; the report
\* counts no bug as fixed and none as not fixed.
NoBugCounted ==
  /\ Reported
  /\ StatsOf("bugs", "current", "").analyzed = 2
  /\ report.bugs.fixedInSprint.current.issues = 0
  /\ report.bugs.notFixedInSprint.current.issues = 0
  /\ report.bugs.fixedInSprint.current.storyPoints
       + report.bugs.notFixedInSprint.current.storyPoints > 0

\* The issues of an aggregation's result whose status is one of statuses
IssuesWithStatus(stats, statuses) ==
  SumMap([s \in Range(statuses) |-> Get(stats.groupedBy["status"], s)])

\* C24: for every tracked label and sprint of the report, complete holds the
\* analyzed issues of the label's aggregation whose status is in the Done
\* group, and complete and notComplete together hold all its analyzed issues,
\* whatever their status.
C24_LabelsPartitioned ==
  Reported =>
    \A label \in Range(reportOptions.labelsOfInterest), which \in ReportedSprints :
      LET metrics == MetricsOf(report.labels[label], which)
          stats == StatsOf("label", which, label)
      IN /\ metrics.complete.issues = IssuesWithStatus(stats, doneStatuses(reportOptions))
         /\ metrics.complete.issues + metrics.notComplete.issues = stats.analyzed

\* The aggregation of label a over the previous sprint analyzed a Done issue
\* and an issue in Triage, a status of no status group: the report has one
\* complete issue and no issue that is not complete.
UnlistedStatusLost ==
  /\ Reported
  /\ reportOptions.labelsOfInterest = <<"a">>
  /\ reportOptions.previousSprintId = 2
  /\ StatsOf("label", "previous", "a").analyzed = 2
  /\ StatsOf("label", "previous", "a").groupedBy["status"] = ("Done" :> 1) @@ ("Triage" :> 1)
  /\ report.labels["a"].previous.complete.issues = 1
  /\ report.labels["a"].previous.notComplete.issues = 0
  /\ report.labels["a"].current.complete.issues = 1
  /\ report.labels["a"].current.notComplete.issues = 1

\* The status groups of the report, by name
GroupNames == {g.name : g \in Range(EffectiveStatusGroups(reportOptions))}
StatusesOfGroup(name) ==
  GroupStatuses(EffectiveStatusGroups(reportOptions), name, <<>>)

\* No status is listed in two status groups
PairwiseDisjointGroups ==
  \A g, h \in GroupNames :
    g # h => Range(StatusesOfGroup(g)) \cap Range(StatusesOfGroup(h)) = {}

\* No status group lists a status twice
NoStatusTwice ==
  \A g \in GroupNames :
    \A i, j \in DOMAIN StatusesOfGroup(g) :
      StatusesOfGroup(g)[i] = StatusesOfGroup(g)[j] => i = j

\* The story points of a status in the sprint's aggregation: its pivot row
\* summed over the type columns
PointsOfStatus(stats, status) ==
  IF status \in DOMAIN stats.pivot.data THEN SumMap(stats.pivot.data[status]) ELSE 0

\* Every group's metrics are summed from groupedBy.status and from the pivot
\* rows of the sprint's one aggregation, over the names the group lists
GroupsFromOneAggregation(which) ==
  LET stats == StatsOf("sprintStats", which, "")
  IN \A g \in GroupNames :
       LET statuses == StatusesOfGroup(g)
           metrics == MetricsOf(report.statusGroups[g], which)
       IN /\ metrics.issues =
               SumSeq([i \in DOMAIN statuses |-> Get(stats.groupedBy["status"], statuses[i])])
          /\ metrics.storyPoints =
               SumSeq([i \in DOMAIN statuses |-> PointsOfStatus(stats, statuses[i])])

GroupIssuesInAll(which) ==
  SumMap([g \in GroupNames |-> MetricsOf(report.statusGroups[g], which).issues])

\* The statement as it stands: with pairwise disjoint status groups the
\* groups' issues sum to at most analyzed.
C25_DisjointGroupsBounded ==
  Reported =>
    \A which \in ReportedSprints :
      /\ GroupsFromOneAggregation(which)
      /\ PairwiseDisjointGroups =>
           GroupIssuesInAll(which) <= StatsOf("sprintStats", which, "").analyzed

\* C25: each status group's issues are the sum of groupedBy.status, and its
\* story points the sum of the pivot rows over all type columns, over the
\* status names the group lists, both from the sprint's one aggregation; with
\* status groups that share no status and list no status twice, the groups'
\* issues sum to at most analyzed.
C25_StatusGroupsFromOneAggregation ==
  Reported =>
    \A which \in ReportedSprints :
      /\ GroupsFromOneAggregation(which)
      /\ (PairwiseDisjointGroups /\ NoStatusTwice) =>
           GroupIssuesInAll(which) <= StatsOf("sprintStats", which, "").analyzed

\* With the default status groups the sprint's aggregation analyzed three
\* issues, in Done, Open and In Progress: one issue in each of three groups.
C25_Witness ==
  /\ Reported
  /\ ~reportOptions.statusGroups.given
  /\ StatsOf("sprintStats", "current", "").analyzed = 3
  /\ report.statusGroups["Done"].current.issues = 1
  /\ report.statusGroups["To Do"].current.issues = 1
  /\ report.statusGroups["In Progress"].current.issues = 1
  /\ report.statusGroups["Done"].current.storyPoints > 0
  /\ GroupIssuesInAll("current") = 3

\* The group Done lists Done twice: the Done issue is counted twice and the
\* groups hold four issues of three analyzed.
StatusListedTwice ==
  /\ Reported
  /\ reportOptions.statusGroups = RepeatedStatusGroups
  /\ PairwiseDisjointGroups
  /\ StatsOf("sprintStats", "current", "").analyzed = 3
  /\ report.statusGroups["Done"].current.issues = 2
  /\ GroupIssuesInAll("current") = 4

\* ------------------------------------------- claims on the order of the calls
\* A getSprintReport or getBacklogStats invocation is being served
Aggregating == tool \in {"jira_get_backlog_stats", "jira_get_sprint_report"}

\* The invocation awaits a backend call
Awaiting == pc \in AwaitedCalls

\* C26: during one getSprintReport or getBacklogStats invocation at most one
\* backend call is outstanding: the invocation awaits a call exactly when one
\* call is in flight, a step issues at most one call and then awaits it, and a
\* step that ends the wait without awaiting again issues none.
C26_CallStep ==
  Aggregating' =>
    /\ ncalls' \in {ncalls, ncalls + 1}
    /\ ncalls' = ncalls + 1 => (Awaiting' /\ inflight' # NoCall)
    /\ (Awaiting /\ ~Awaiting') => (ncalls' = ncalls /\ inflight' = NoCall)

C26_OneCallOutstanding ==
  /\ [](Aggregating => (Awaiting <=> inflight # NoCall))
  /\ [][C26_CallStep]_vars

\* The change history of the second inflow candidate is awaited, nine calls
\* having been issued one after the other
C26_Witness ==
  /\ Reporting
  /\ pc = "getIssueChangelog"
  /\ inflight # NoCall
  /\ candidate = 2
  /\ ncalls >= 9
  /\ failures = 0

\* ------------------------------------------------ claims on the board filter
\* The project keys of the backend's boards
BoardProjects == {b.projectKey : b \in Boards} \ {""}

\* The filter of a project, as the query builder writes it
ProjectFilter(projectKey) == "project = " \o Quoted(projectKey)

\* The conditions the query builder added, as the final query holds them
FiltersInQuery ==
  \E i \in DOMAIN finalJql :
    finalJql[i] \in {Join(filters, " AND "), " AND " \o Join(filters, " AND ")}

\* C27: a getBacklogStats call with a boardId resolves the board before it
\* sends any search request, and the query it composes holds a project filter
\* for the project of the board, whatever board the backend returned.
C27_BoardProjectFiltered ==
  (tool = "jira_get_backlog_stats" /\ options.boardId # 0) =>
    /\ pc = "getBoard" => (requests = 0 /\ ncalls = 1)
    /\ QueryComposed =>
         /\ filters # <<>>
         /\ \E k \in BoardProjects : filters[1] = ProjectFilter(k)
         /\ FiltersInQuery

\* The board was resolved and had no project location: the search request is
\* out with the query as it was given, no condition added.
BoardWithoutProject ==
  /\ tool = "jira_get_backlog_stats"
  /\ options = [BaseOptions EXCEPT !.boardId = 1]
  /\ pc = "search"
  /\ ncalls = 2
  /\ filters = <<>>
  /\ jql = ExampleJql
  /\ finalJql = jql

\* The board was resolved and is of project P: the query holds the filter.
BoardOfProject ==
  /\ tool = "jira_get_backlog_stats"
  /\ options = [BaseOptions EXCEPT !.boardId = 1]
  /\ pc = "search"
  /\ ncalls = 2
  /\ filters = <<ProjectFilter("P")>>
  /\ jql = ExampleJql
  /\ Cat(finalJql) = "project = X AND project = \"P\" ORDER BY created DESC"

\* --------------------------------------- claims on the report's allowlists
\* The sub-aggregation of a step of the report as a function of the data set
\* that answers it: the loop of getBacklogStats from the request with a token
\* on, a being the accumulators, total the total recorded, n the pages counted.
RECURSIVE StatsRun(_, _, _, _, _, _)
StatsRun(b, ph, token, a, total, n) ==
  LET opts == PhaseOptions(reportOptions, ph)
      response == AnswerOf(b, ph, token)
      t == IF response.total.given THEN response.total.n ELSE total
      a2 == AggregatePage(a, response.issues, opts, reportAllowlists.issueTypeAllowlist,
                          reportAllowlists.projectAllowlist)
  IN IF response.issues = <<>> THEN BuildResult(a, t, opts)
     ELSE IF response.isLast \/ response.nextPageToken = "" \/ ~LoopContinues(n + 1)
     THEN BuildResult(a2, t, opts)
     ELSE StatsRun(b, ph, response.nextPageToken, a2, t, n + 1)

StatsOfBackend(b, ph) ==
  StatsRun(b, ph, "", [EmptyAcc EXCEPT !.groupedBy =
                         InitGroupedBy(PhaseOptions(reportOptions, ph).groupBy)], 0, 0)

\* The report of this call over a data set, the sprints, the field catalog and
\* the inflow being those of this run
ReportOf(b) ==
  BuildReport(reportOptions, currentSprint, previousSprint, storyPointsFieldName,
              [i \in {k \in DOMAIN ThePlan : ThePlan[k].kind # "inflow"} |->
                 StatsOfBackend(b, ThePlan[i])],
              inflowMetrics)

AllowlistConfigured ==
  reportAllowlists.projectAllowlist.on \/ reportAllowlists.issueTypeAllowlist.on

\* The issues on which the data sets "sprint" and "mixed" differ pass no
\* configured allowlist of the server
DifferInDisallowedAlone ==
  /\ reportAllowlists.projectAllowlist.on =>
       ~isProjectAllowed(getProjectFromIssueKey(IssueB.key),
                         reportAllowlists.projectAllowlist)

\* C29: with an allowlist configured, the report of a call is the report the
\* same call has over a backend that differs in issues of projects or types
\* not allowed alone.
C29_ReportIgnoresDisallowed ==
  (Reported /\ AllowlistConfigured /\ DifferInDisallowedAlone
     /\ backend \in {"sprint", "mixed"}) =>
    /\ report = ReportOf(backend)
    /\ ReportOf("sprint") = ReportOf("mixed")

\* With the project allowlist P the call was served over the data set with
\* the issue of project O: the report holds 2 bugs in the backlog, and 1 over
\* the data set without that issue.
DisallowedIssueCounted ==
  /\ Reported
  /\ backend = "mixed"
  /\ reportAllowlists.projectAllowlist = ProjectAllowlistP
  /\ report = ReportOf("mixed")
  /\ report.bugs.backlogTotal.issues = 2
  /\ ReportOf("sprint").bugs.backlogTotal.issues = 1

\* ------------------------------------------------ claims on the issue keys
\* A key that is not <letter><letters or digits>-<digits>, told from its shape.
Misshapen(issueKey) ==
  ~ \E d \in 2..(Len(issueKey) - 1) :
      /\ issueKey[d] = "-"
      /\ issueKey[1] \in UpperLetters \cup LowerLetters
      /\ \A j \in 2..(d - 1) : issueKey[j] \in UpperLetters \cup LowerLetters \cup Digits
      /\ \A j \in (d + 1)..Len(issueKey) : issueKey[j] \in Digits

MisshapenFetched == \E issue \in DOMAIN returnedIssues : Misshapen(issue.key)

\* C30: once a fetched page holds an issue whose key is not of the form
\* <letter><letters or digits>-<digits>, the backlog stats call has failed with
\* 'Invalid issue key format' and has returned no result, whatever was
\* aggregated before; the call never goes on past such an issue.
C30_InvalidKeyFails ==
  (tool = "jira_get_backlog_stats" /\ MisshapenFetched) =>
     /\ pc = "failed"
     /\ error = "Invalid issue key format"
     /\ ~result.given

\* The second page holds the misshapen key: the first page was aggregated and
\* the call failed all the same.
C30_Witness ==
  /\ tool = "jira_get_backlog_stats"
  /\ MisshapenFetched
  /\ pc = "failed"
  /\ error = "Invalid issue key format"
  /\ requests = 2
  /\ pageCount = 1
  /\ acc.analyzed = PageSize
  /\ ~result.given

====
